---- MODULE Spec2Model ----
(***************************************************************************)
(* Model of the llegapo-server core: the JWT cache of RedClient            *)
(* (src/src/utils/red-client.ts), the legacy token cache of src/index.ts,  *)
(* the arrivals normalisation / formatting of StopService and              *)
(* formatters.ts, the stop and route services with their controllers, the  *)
(* polling loop of getStopStatistics, the requestTimeout middleware and    *)
(* the load-test script runLoadTest.                                       *)
(*                                                                         *)
(* Strings are sequences.  A token is the sequence of character codes that *)
(* Buffer.from(raw, "base64").toString("utf-8") yields; the empty string   *)
(* is << >>.  Time is Date.now() in milliseconds.                          *)
(***************************************************************************)
EXTENDS Integers, Sequences, FiniteSets, TLC

(***************************************************************************)
(* Bounds of the model.                                                    *)
(***************************************************************************)
NumCalls == 2       \* concurrent RedClient.getStopArrivals calls
MaxTicks == 2       \* number of times the clock advances in one behaviour
MaxItems == 2       \* records in servicios.item of an arrivals response

(***************************************************************************)
(* Program constants.                                                      *)
(***************************************************************************)
jwtCacheTime == 300000
MinHtmlLen == 100
MinTokenLen == 20
NumPatterns == 6
NumStrategies == 3
PauseMs == 1000
legacyCacheTime == 1800000
MsPerSecond == 1000

Calls == 1..NumCalls

Rep(ch, n) == [i \in 1..n |-> ch]

(***************************************************************************)
(* Buffer.from(raw, "base64"): characters outside the base64 alphabet are  *)
(* skipped, the remaining sextets are packed into bytes, an incomplete     *)
(* trailing byte is dropped.  The decoder never throws.  The model's       *)
(* alphabet is "A" (sextet 0), "B" (sextet 1) and "#" (not base64).        *)
(***************************************************************************)
Sextet(ch) == CASE ch = "A" -> 0 [] ch = "B" -> 1 [] OTHER -> -1

Significant(raw) == SelectSeq(raw, LAMBDA ch : Sextet(ch) >= 0)

SextetAt(sig, i) == IF i <= Len(sig) THEN Sextet(sig[i]) ELSE 0

DecodedLen(sig) ==
    3 * (Len(sig) \div 4)
      + (CASE Len(sig) % 4 = 2 -> 1 [] Len(sig) % 4 = 3 -> 2 [] OTHER -> 0)

DecodedByte(sig, i) ==
    LET g == (i - 1) \div 3
        k == (i - 1) % 3
        v == SextetAt(sig, 4 * g + 1) * 262144 + SextetAt(sig, 4 * g + 2) * 4096
               + SextetAt(sig, 4 * g + 3) * 64 + SextetAt(sig, 4 * g + 4)
    IN  CASE k = 0 -> v \div 65536
          [] k = 1 -> (v \div 256) % 256
          [] OTHER -> v % 256

Base64Decode(raw) ==
    LET sig == Significant(raw)
    IN  [i \in 1..DecodedLen(sig) |-> DecodedByte(sig, i)]

(***************************************************************************)
(* Buffer.toString("utf-8"): every byte yields at least one character      *)
(* (bytes that are not valid UTF-8 become U+FFFD), so only the empty       *)
(* buffer yields the empty string.                                         *)
(***************************************************************************)
Utf8ToString(bytes) ==
    [i \in 1..Len(bytes) |-> IF bytes[i] < 128 THEN bytes[i] ELSE 65533]

(***************************************************************************)
(* Upstream pages.  m[i] is the group captured by jwtPatterns[i], << >>    *)
(* when the pattern does not match (a capture group ([^']+) is never       *)
(* empty).  kind "object" is a truthy non-string body (axios parsed JSON), *)
(* kind "null" a falsy body.                                               *)
(***************************************************************************)
NoMatch == << >>

Decodable == Rep("A", MinTokenLen)                  \* base64 text
OtherDecodable == Rep("B", MinTokenLen)             \* base64 text of another token
Undecodable == <<"A">> \o Rep("#", MinTokenLen)     \* one base64 character only
TooShort == Rep("A", MinTokenLen - 1)

Page(len, matches) ==
    [ kind |-> "string", len |-> len,
      m |-> [i \in 1..NumPatterns |->
               IF i \in DOMAIN matches THEN matches[i] ELSE NoMatch] ]

HtmlBodies ==
    { Page(MinHtmlLen, << >>),
      Page(MinHtmlLen, <<Decodable>>),
      Page(MinHtmlLen, <<NoMatch, NoMatch, NoMatch, NoMatch, NoMatch, OtherDecodable>>),
      Page(MinHtmlLen, <<TooShort, Decodable>>),
      Page(MinHtmlLen, <<TooShort>>),
      Page(MinHtmlLen, <<Undecodable, Decodable>>),
      Page(MinHtmlLen - 1, <<Decodable>>),
      [kind |-> "object", len |-> 0, m |-> [i \in 1..NumPatterns |-> NoMatch]],
      [kind |-> "null", len |-> 0, m |-> [i \in 1..NumPatterns |-> NoMatch]] }

(* error.response.data of a failed request: absent, a string or an object  *)
ErrorBodies == {"none", "string", "object"}

VARIABLES
    now,        \* Date.now()
    ticks,      \* clock advances so far
    jwtCache,   \* RedClient.jwtCache: [token, expiry]
    pc,         \* position of each getStopArrivals call
    strategy,   \* index in strategies of the fallback request in flight
    wake,       \* due time of the setTimeout a call is waiting for
    sentToken,  \* params.t of the arrivals request a call has in flight
    acquired,   \* token acquisition requests a call has issued so far
    outcome,    \* the last call that ended, and how
    infoOut,    \* last value returned by getJwtCacheInfo
    configOut,  \* last value returned by getConfig
    legacyCache,    \* src/index.ts: [jwtToken, tokenExpiry]
    legacyPc,       \* position of the getStopArrivals call of src/index.ts
    legacyOutcome,  \* how the last call of src/index.ts ended
    serviceCall,    \* the last call of StopService or formatArrivals: inputs, result
    httpCall,       \* the last HTTP request: inputs, upstream calls, response
    routeOut,       \* how the last RedClient.getRoute call ended
    statsRun,       \* the getStopStatistics call in progress: loop position, tallies
    timedRequest,   \* one HTTP request under requestTimeout: timer, handler, writes
    loadTest        \* runLoadTest: launched, inFlight, summary, position

clientVars == <<jwtCache, pc, strategy, wake, sentToken, acquired, outcome,
                infoOut, configOut>>

legacyVars == <<legacyCache, legacyPc, legacyOutcome>>

serviceVars == <<serviceCall>>

httpVars == <<httpCall>>

processVars == <<routeOut, statsRun, timedRequest, loadTest>>

(* everything that no method of RedClient touches but getRoute's result    *)
outsideClient == <<legacyVars, serviceVars, httpVars, processVars>>

vars == <<now, ticks, clientVars, legacyVars, serviceVars, httpVars, processVars>>

config ==
    [ redBaseUrl |-> "https://www.red.cl",
      predictorEndpoint |-> "/predictorPlus/prediccion",
      routeEndpoint |-> "/restservice_v2/rest/conocerecorrido",
      jwtCacheTime |-> jwtCacheTime,
      requestTimeout |-> 10000 ]

NoOutcome == [call |-> 0, kind |-> "none", type |-> "", status |-> 0]

EmptyCache == [token |-> << >>, expiry |-> 0]

(* no StopService method has been called yet                               *)
NoCall ==
    [ op |-> "none", codsimt |-> << >>, serviceCode |-> << >>,
      upstream |-> [kind |-> "none", body |-> [t |-> "undefined"]],
      arrivals |-> << >>,
      result |-> [kind |-> "none", type |-> "", success |-> FALSE, data |-> << >>] ]

(* no HTTP request has been handled yet                                    *)
NoRequest ==
    [ endpoint |-> "none", code |-> << >>, busId |-> << >>, samples |-> 0,
      interval |-> 0, upstreams |-> << >>,
      service |-> [kind |-> "none", type |-> "", success |-> FALSE, data |-> << >>],
      requests |-> << >>,
      response |-> [status |-> 0, body |-> [success |-> FALSE, error |-> "none"]] ]

(* RedClient.getRoute has not been called yet                              *)
NoRouteCall == [kind |-> "none", type |-> "", status |-> 0]

(* getStopStatistics has not been called yet                               *)
NoStatsRun ==
    [ pc |-> "idle", samples |-> 0, intervalMs |-> 0, i |-> 0,
      acc |-> [historico |-> << >>, contador |-> [k \in {} |-> 0], inserted |-> << >>],
      polls |-> 0, delays |-> 0, inFlight |-> 0, wake |-> 0, completedAt |-> 0 ]

(* no request has entered the requestTimeout middleware yet                *)
NoTimedRequest ==
    [ pc |-> "idle", timer |-> "none", due |-> 0, headersSent |-> FALSE,
      writes |-> 0, status |-> 0, finished |-> FALSE, closed |-> FALSE ]

(* runLoadTest has not been called yet                                     *)
NoLoadTest ==
    [ pc |-> "idle", total |-> 0, concurrency |-> 0, launched |-> 0, inFlight |-> 0,
      ok2xx |-> 0, rate429 |-> 0, client4xx |-> 0, server5xx |-> 0, other |-> 0,
      samples |-> 0 ]

(* a validity test that reads the expiry the wrong way round               *)
CacheValidInverted(cache, t) == cache.token # << >> /\ t > cache.expiry

(* this.jwtCache.token && Date.now() < this.jwtCache.expiry                *)
CacheValid(cache, t) == cache.token # << >> /\ t < cache.expiry

CacheInfo(cache, t) ==
    LET expiresIn == IF cache.expiry - t > 0 THEN cache.expiry - t ELSE 0
    IN  [ hasToken  |-> cache.token # << >>,
          expiresIn |-> expiresIn \div MsPerSecond,
          isValid   |-> (cache.token # << >> /\ t < cache.expiry) ]

(***************************************************************************)
(* extractAndSetJwt(html, strategy): the first pattern with a capture of   *)
(* at least MinTokenLen characters sets token and expiry together.  The    *)
(* catch branch (use the raw token) is unreachable: Buffer.from does not   *)
(* throw.                                                                  *)
(***************************************************************************)
Acceptable(html) ==
    { i \in 1..NumPatterns : html.m[i] # NoMatch /\ Len(html.m[i]) >= MinTokenLen }

FirstAcceptable(html) ==
    CHOOSE i \in Acceptable(html) : \A j \in Acceptable(html) : i <= j

extractAndSetJwt(html, cache, t) ==
    IF html.kind # "string" \/ html.len < MinHtmlLen
      THEN [ok |-> FALSE, cache |-> cache]
    ELSE IF Acceptable(html) = {}
      THEN [ok |-> FALSE, cache |-> cache]
    ELSE [ok |-> TRUE,
          cache |-> [token  |-> Utf8ToString(Base64Decode(html.m[FirstAcceptable(html)])),
                     expiry |-> t + jwtCacheTime]]

Init ==
    /\ now = 0
    /\ ticks = 0
    /\ jwtCache = EmptyCache
    /\ pc = [c \in Calls |-> "idle"]
    /\ strategy = [c \in Calls |-> 0]
    /\ wake = [c \in Calls |-> 0]
    /\ sentToken = [c \in Calls |-> << >>]
    /\ acquired = [c \in Calls |-> 0]
    /\ outcome = NoOutcome
    /\ infoOut = CacheInfo(EmptyCache, 0)
    /\ configOut = config
    /\ legacyCache = [jwtToken |-> << >>, tokenExpiry |-> 0]
    /\ legacyPc = "idle"
    /\ legacyOutcome = "none"
    /\ serviceCall = NoCall
    /\ httpCall = NoRequest
    /\ routeOut = NoRouteCall
    /\ statsRun = NoStatsRun
    /\ timedRequest = NoTimedRequest
    /\ loadTest = NoLoadTest

(***************************************************************************)
(* RedClient.getStopArrivals, lines 40-65: the arrivals request is built   *)
(* from the cached token and sent.  The continuation of                    *)
(* "await this.refreshJwtIfNeeded()" runs in the same microtask drain as   *)
(* the return of refreshJwtIfNeeded, so no other handler runs in between.  *)
(***************************************************************************)
SendArrivals(c, cache) ==
    /\ pc' = [pc EXCEPT ![c] = "arrivals"]
    /\ sentToken' = [sentToken EXCEPT ![c] = cache.token]
    /\ strategy' = [strategy EXCEPT ![c] = 0]
    /\ wake' = [wake EXCEPT ![c] = 0]
    /\ UNCHANGED <<acquired, outcome>>

(* the call ends with an exception                                         *)
Throw(c, type, status) ==
    /\ pc' = [pc EXCEPT ![c] = "done"]
    /\ outcome' = [call |-> c, kind |-> "error", type |-> type, status |-> status]
    /\ strategy' = [strategy EXCEPT ![c] = 0]
    /\ sentToken' = [sentToken EXCEPT ![c] = << >>]
    /\ wake' = [wake EXCEPT ![c] = 0]
    /\ acquired' = [acquired EXCEPT ![c] = 0]

(***************************************************************************)
(* tryVercelStrategies, one turn of the for loop: the request of strategy  *)
(* i is issued; after the last strategy the function returns false and     *)
(* refreshJwtIfNeeded throws RedClientError(503).                          *)
(***************************************************************************)
StartStrategy(c, i) ==
    IF i <= NumStrategies
      THEN /\ pc' = [pc EXCEPT ![c] = "fallback"]
           /\ strategy' = [strategy EXCEPT ![c] = i]
           /\ wake' = [wake EXCEPT ![c] = 0]
           /\ acquired' = [acquired EXCEPT ![c] = @ + 1]
           /\ UNCHANGED <<sentToken, outcome>>
      ELSE Throw(c, "RedClientError", 503)

(***************************************************************************)
(* getStopArrivals up to its first network request: refreshJwtIfNeeded     *)
(* returns at once on a valid cache, otherwise tryOriginalJwtMethod issues *)
(* the primary scrape.                                                     *)
(***************************************************************************)
getStopArrivals(c) ==
    /\ pc[c] = "idle"
    /\ IF CacheValid(jwtCache, now)
         THEN SendArrivals(c, jwtCache)
         ELSE /\ pc' = [pc EXCEPT ![c] = "primary"]
              /\ acquired' = [acquired EXCEPT ![c] = @ + 1]
              /\ UNCHANGED <<strategy, wake, sentToken, outcome>>
    /\ UNCHANGED <<now, ticks, jwtCache, infoOut, configOut, outsideClient>>

(***************************************************************************)
(* The primary scrape completes.  Every failure (axios error, TypeError of *)
(* html.substring on a non-string body, extraction returning false) leads  *)
(* to tryVercelStrategies.                                                 *)
(***************************************************************************)
tryOriginalJwtMethod(c) ==
    /\ pc[c] = "primary"
    /\ \/ /\ StartStrategy(c, 1)
          /\ UNCHANGED jwtCache
       \/ \E html \in HtmlBodies :
            LET r == extractAndSetJwt(html, jwtCache, now)
            IN  IF html.kind # "object" /\ r.ok
                  THEN /\ jwtCache' = r.cache
                       /\ SendArrivals(c, r.cache)
                  ELSE /\ StartStrategy(c, 1)
                       /\ UNCHANGED jwtCache
    /\ UNCHANGED <<now, ticks, infoOut, configOut, outsideClient>>

(***************************************************************************)
(* The request of a fallback strategy completes.  A failed request is      *)
(* logged in the catch block, where error.response.data.substring throws   *)
(* a TypeError out of tryVercelStrategies when the error body is an object *)
(* (axios parses JSON bodies).  A page without an acceptable token is      *)
(* followed by the 1 s pause.                                              *)
(***************************************************************************)
tryVercelStrategies(c) ==
    /\ pc[c] = "fallback"
    /\ \/ \E body \in ErrorBodies :
            /\ IF body = "object"
                 THEN Throw(c, "TypeError", 0)
                 ELSE StartStrategy(c, strategy[c] + 1)
            /\ UNCHANGED jwtCache
       \/ \E html \in HtmlBodies :
            LET r == extractAndSetJwt(html, jwtCache, now)
            IN  IF r.ok
                  THEN /\ jwtCache' = r.cache
                       /\ SendArrivals(c, r.cache)
                  ELSE /\ pc' = [pc EXCEPT ![c] = "pause"]
                       /\ wake' = [wake EXCEPT ![c] = now + PauseMs]
                       /\ UNCHANGED <<jwtCache, strategy, sentToken, acquired, outcome>>
    /\ UNCHANGED <<now, ticks, infoOut, configOut, outsideClient>>

(* the setTimeout of line 252 fires and the loop goes on                   *)
tryVercelStrategiesResume(c) ==
    /\ pc[c] = "pause"
    /\ now >= wake[c]
    /\ StartStrategy(c, strategy[c] + 1)
    /\ UNCHANGED <<now, ticks, jwtCache, infoOut, configOut, outsideClient>>

(* a completion that, on failure, lets the call start over                 *)
getStopArrivalsResponseRetrying(c) ==
    /\ pc[c] = "arrivals"
    /\ \/ /\ pc' = [pc EXCEPT ![c] = "done"]
          /\ outcome' = [call |-> c, kind |-> "data", type |-> "", status |-> 200]
          /\ sentToken' = [sentToken EXCEPT ![c] = << >>]
          /\ acquired' = [acquired EXCEPT ![c] = 0]
          /\ UNCHANGED <<strategy, wake>>
       \/ /\ pc' = [pc EXCEPT ![c] = "idle"]
          /\ sentToken' = [sentToken EXCEPT ![c] = << >>]
          /\ acquired' = [acquired EXCEPT ![c] = 0]
          /\ UNCHANGED <<strategy, wake, outcome>>
    /\ UNCHANGED <<now, ticks, jwtCache, infoOut, configOut, outsideClient>>

(* the arrivals request completes: data is returned, or RedClientError(500) *)
getStopArrivalsResponse(c) ==
    /\ pc[c] = "arrivals"
    /\ \/ /\ pc' = [pc EXCEPT ![c] = "done"]
          /\ outcome' = [call |-> c, kind |-> "data", type |-> "", status |-> 200]
          /\ sentToken' = [sentToken EXCEPT ![c] = << >>]
          /\ acquired' = [acquired EXCEPT ![c] = 0]
          /\ UNCHANGED <<strategy, wake>>
       \/ Throw(c, "RedClientError", 500)
    /\ UNCHANGED <<now, ticks, jwtCache, infoOut, configOut, outsideClient>>

(* an invalidation that resets the expiry and keeps the token             *)
invalidateKeepsToken ==
    /\ jwtCache' = [jwtCache EXCEPT !.expiry = 0]
    /\ UNCHANGED <<now, ticks, pc, strategy, wake, sentToken, acquired, outcome,
                   infoOut, configOut, outsideClient>>

invalidateJwtCache ==
    /\ jwtCache' = [token |-> << >>, expiry |-> 0]
    /\ UNCHANGED <<now, ticks, pc, strategy, wake, sentToken, acquired, outcome,
                   infoOut, configOut, outsideClient>>

(* an introspection that evicts the credential it finds expired           *)
getJwtCacheInfoEvicting ==
    /\ infoOut' = CacheInfo(jwtCache, now)
    /\ jwtCache' = IF CacheValid(jwtCache, now) THEN jwtCache ELSE EmptyCache
    /\ UNCHANGED <<now, ticks, pc, strategy, wake, sentToken, acquired,
                   outcome, configOut, outsideClient>>

getJwtCacheInfo ==
    /\ infoOut' = CacheInfo(jwtCache, now)
    /\ UNCHANGED <<now, ticks, jwtCache, pc, strategy, wake, sentToken, acquired,
                   outcome, configOut, outsideClient>>

getConfig ==
    /\ configOut' = [k \in DOMAIN config |-> config[k]]
    /\ UNCHANGED <<now, ticks, jwtCache, pc, strategy, wake, sentToken, acquired,
                   outcome, infoOut, outsideClient>>

(* the clock advances between two handlers                                 *)
Deltas == {PauseMs, jwtCacheTime}

Tick ==
    /\ ticks < MaxTicks
    /\ \E d \in Deltas : now' = now + d
    /\ ticks' = ticks + 1
    /\ UNCHANGED <<jwtCache, pc, strategy, wake, sentToken, acquired, outcome,
                   infoOut, configOut, outsideClient>>

(* no getStopArrivals call is between its start and its end                *)
Quiet == \A c \in Calls : pc[c] \in {"idle", "done"}

(***************************************************************************)
(* Spec: one client that makes its calls one after the other, with the     *)
(* cache operations and the clock in between and during the calls.         *)
(***************************************************************************)
sequentialGetStopArrivals(c) == Quiet /\ getStopArrivals(c)

Next ==
    \/ \E c \in Calls : sequentialGetStopArrivals(c)
    \/ \E c \in Calls : tryOriginalJwtMethod(c)
    \/ \E c \in Calls : tryVercelStrategies(c)
    \/ \E c \in Calls : tryVercelStrategiesResume(c)
    \/ \E c \in Calls : getStopArrivalsResponse(c)
    \/ invalidateJwtCache
    \/ getJwtCacheInfo
    \/ getConfig
    \/ Tick

Spec == Init /\ [][Next]_vars

(***************************************************************************)
(* SpecConcurrent: the calls of concurrent requests interleave at every    *)
(* await of getStopArrivals.                                               *)
(***************************************************************************)
NextConcurrent ==
    \/ \E c \in Calls : getStopArrivals(c)
    \/ \E c \in Calls : tryOriginalJwtMethod(c)
    \/ \E c \in Calls : tryVercelStrategies(c)
    \/ \E c \in Calls : tryVercelStrategiesResume(c)
    \/ \E c \in Calls : getStopArrivalsResponse(c)
    \/ invalidateJwtCache
    \/ Tick

SpecConcurrent == Init /\ [][NextConcurrent]_vars

(***************************************************************************)
(* RedClient.getRoute, lines 97-125: one request without a token; it never *)
(* calls refreshJwtIfNeeded and never reads or writes jwtCache.  The       *)
(* request ends with the response body or with RedClientError(500).        *)
(***************************************************************************)
clientGetRoute ==
    /\ routeOut.kind # "inflight"
    /\ routeOut' = [kind |-> "inflight", type |-> "", status |-> 0]
    /\ UNCHANGED <<now, ticks, clientVars, legacyVars, serviceVars, httpVars,
                   statsRun, timedRequest, loadTest>>

clientGetRouteResponse ==
    /\ routeOut.kind = "inflight"
    /\ \/ routeOut' = [kind |-> "data", type |-> "", status |-> 200]
       \/ routeOut' = [kind |-> "error", type |-> "RedClientError", status |-> 500]
    /\ UNCHANGED <<now, ticks, clientVars, legacyVars, serviceVars, httpVars,
                   statsRun, timedRequest, loadTest>>

(***************************************************************************)
(* SpecCredential: every operation of RedClient, the calls of concurrent   *)
(* requests interleaving at every await.                                   *)
(***************************************************************************)
NextCredential ==
    \/ \E c \in Calls : getStopArrivals(c)
    \/ \E c \in Calls : tryOriginalJwtMethod(c)
    \/ \E c \in Calls : tryVercelStrategies(c)
    \/ \E c \in Calls : tryVercelStrategiesResume(c)
    \/ \E c \in Calls : getStopArrivalsResponse(c)
    \/ clientGetRoute
    \/ clientGetRouteResponse
    \/ invalidateJwtCache
    \/ getJwtCacheInfo
    \/ getConfig
    \/ Tick

SpecCredential == Init /\ [][NextCredential]_vars

(***************************************************************************)
(* SpecTermination: the calls of one client, made one after the other,     *)
(* under the scheduling of the event loop.                                 *)
(* Every axios request carries timeout: requestTimeout, so each request in *)
(* flight completes or fails (weak fairness of the handlers of its         *)
(* completion), and the setTimeout of the pause fires once its delay has   *)
(* elapsed.  The clock advances here exactly to the due time of a pending  *)
(* timer.                                                                  *)
(***************************************************************************)
setTimeoutElapses(c) ==
    /\ pc[c] = "pause"
    /\ now < wake[c]
    /\ now' = wake[c]
    /\ UNCHANGED <<ticks, clientVars, outsideClient>>

NextTermination ==
    \/ \E c \in Calls : sequentialGetStopArrivals(c)
    \/ \E c \in Calls : tryOriginalJwtMethod(c)
    \/ \E c \in Calls : tryVercelStrategies(c)
    \/ \E c \in Calls : setTimeoutElapses(c)
    \/ \E c \in Calls : tryVercelStrategiesResume(c)
    \/ \E c \in Calls : getStopArrivalsResponse(c)
    \/ invalidateJwtCache

SpecTermination ==
    /\ Init
    /\ [][NextTermination]_vars
    /\ \A c \in Calls :
          /\ WF_vars(tryOriginalJwtMethod(c))
          /\ WF_vars(tryVercelStrategies(c))
          /\ WF_vars(setTimeoutElapses(c))
          /\ WF_vars(tryVercelStrategiesResume(c))
          /\ WF_vars(getStopArrivalsResponse(c))

(***************************************************************************)
(* src/index.ts: the module-level cache jwtToken / tokenExpiry and its     *)
(* getStopArrivals.  refreshJwt stores the captured text as it is (the     *)
(* "t" parameter of the Location header in production, the capture of      *)
(* var jwt = "..." otherwise), both non-empty, for 30 minutes.             *)
(***************************************************************************)
LegacyTokens == {Decodable, TooShort}

(* if (!jwtToken || Date.now() > tokenExpiry) await refreshJwt()           *)
LegacyNeedsRefresh(cache, t) == cache.jwtToken = << >> \/ t > cache.tokenExpiry

legacyGetStopArrivals ==
    /\ legacyPc = "idle"
    /\ legacyPc' = IF LegacyNeedsRefresh(legacyCache, now) THEN "refresh" ELSE "arrivals"
    /\ legacyOutcome' = "none"
    /\ UNCHANGED <<now, ticks, legacyCache, clientVars, serviceVars, httpVars, processVars>>

refreshJwt ==
    /\ legacyPc = "refresh"
    /\ \/ \E tok \in LegacyTokens :
            /\ legacyCache' = [jwtToken |-> tok, tokenExpiry |-> now + legacyCacheTime]
            /\ legacyPc' = "arrivals"
            /\ UNCHANGED legacyOutcome
       \/ /\ legacyPc' = "idle"
          /\ legacyOutcome' = "error"
          /\ UNCHANGED legacyCache
    /\ UNCHANGED <<now, ticks, clientVars, serviceVars, httpVars, processVars>>

legacyArrivalsResponse ==
    /\ legacyPc = "arrivals"
    /\ legacyPc' = "idle"
    /\ legacyOutcome' \in {"data", "error"}
    /\ UNCHANGED <<now, ticks, legacyCache, clientVars, serviceVars, httpVars, processVars>>

LegacyDeltas == {1, legacyCacheTime}

LegacyTick ==
    /\ ticks < MaxTicks
    /\ \E d \in LegacyDeltas : now' = now + d
    /\ ticks' = ticks + 1
    /\ UNCHANGED <<clientVars, legacyVars, serviceVars, httpVars, processVars>>

NextLegacy ==
    \/ legacyGetStopArrivals
    \/ refreshJwt
    \/ legacyArrivalsResponse
    \/ LegacyTick

SpecLegacy == Init /\ [][NextLegacy]_vars

(***************************************************************************)
(* StopService and formatArrivals.  Codes are sequences of characters; the *)
(* other texts of a record are strings, "" being the empty one.  A record  *)
(* is a function from the property names it has; reading a name it does    *)
(* not have gives undefined.                                               *)
(***************************************************************************)
UpperLetters ==
    << "A", "B", "C", "D", "E", "F", "G", "H", "I", "J", "K", "L", "M",
       "N", "O", "P", "Q", "R", "S", "T", "U", "V", "W", "X", "Y", "Z" >>

LowerLetters ==
    << "a", "b", "c", "d", "e", "f", "g", "h", "i", "j", "k", "l", "m",
       "n", "o", "p", "q", "r", "s", "t", "u", "v", "w", "x", "y", "z" >>

Digits == {"0", "1", "2", "3", "4", "5", "6", "7", "8", "9"}

Whitespace == {" ", "\t", "\n"}

IndexIn(letters, ch) == CHOOSE i \in DOMAIN letters : letters[i] = ch

IsIn(letters, ch) == \E i \in DOMAIN letters : letters[i] = ch

toUpperCase(str) ==
    [i \in DOMAIN str |->
        IF IsIn(LowerLetters, str[i])
          THEN UpperLetters[IndexIn(LowerLetters, str[i])]
          ELSE str[i]]

toLowerCase(str) ==
    [i \in DOMAIN str |->
        IF IsIn(UpperLetters, str[i])
          THEN LowerLetters[IndexIn(UpperLetters, str[i])]
          ELSE str[i]]

trim(str) ==
    LET kept == {i \in DOMAIN str : str[i] \notin Whitespace}
    IN  IF kept = {} THEN << >>
        ELSE SubSeq(str, CHOOSE i \in kept : \A j \in kept : i <= j,
                         CHOOSE i \in kept : \A j \in kept : i >= j)

(* /^[A-Za-z0-9]+$/                                                        *)
IsAlphanumeric(str) ==
    /\ str # << >>
    /\ \A i \in DOMAIN str :
          IsIn(UpperLetters, str[i]) \/ IsIn(LowerLetters, str[i]) \/ str[i] \in Digits

MinStopCodeLen == 3
MaxStopCodeLen == 10

validateStopCode(codsimt) ==
    IF codsimt = << >>
      THEN [valid |-> FALSE, error |-> "Codigo de paradero es requerido"]
    ELSE IF Len(trim(codsimt)) < MinStopCodeLen
      THEN [valid |-> FALSE, error |-> "Codigo de paradero debe tener al menos 3 caracteres"]
    ELSE IF Len(trim(codsimt)) > MaxStopCodeLen
      THEN [valid |-> FALSE, error |-> "Codigo de paradero muy largo (maximo 10 caracteres)"]
    ELSE IF ~IsAlphanumeric(trim(codsimt))
      THEN [valid |-> FALSE, error |-> "Codigo de paradero solo puede contener letras y numeros"]
    ELSE [valid |-> TRUE, error |-> ""]

(* throws ValidationError, or returns codsimt.trim().toUpperCase()         *)
validateAndCleanStopCode(codsimt) ==
    IF validateStopCode(codsimt).valid
      THEN [threw |-> FALSE, value |-> toUpperCase(trim(codsimt))]
      ELSE [threw |-> TRUE, value |-> << >>]

(***************************************************************************)
(* A response body as axios delivers it: null, a string, an array or an    *)
(* object.  The elements of an array are null or records.                  *)
(***************************************************************************)
JsNull == [t |-> "null"]
JsUndefined == [t |-> "undefined"]
JsString(text) == [t |-> "string", text |-> text]
JsArray(elements) == [t |-> "array", elements |-> elements]
JsObject(properties) == [t |-> "object", properties |-> properties]

IsNullish(x) == x.t \in {"null", "undefined"}

(* x.k for a value x that is neither null nor undefined                    *)
Get(x, k) ==
    IF x.t = "object" /\ k \in DOMAIN x.properties THEN x.properties[k] ELSE JsUndefined

(* record[k] is neither undefined nor ""                                   *)
Truthy(record, k) == k \in DOMAIN record /\ record[k] # ""

(* the property "to" holding record[from], when record has it              *)
NoProperties == [k \in {} |-> ""]

Copy(record, from, to) ==
    IF from \in DOMAIN record THEN to :> record[from] ELSE NoProperties

(* record[k] || fallback                                                   *)
OrElse(record, k, fallback) == IF Truthy(record, k) THEN record[k] ELSE fallback

ArrivalFields ==
    { "servicio", "destino", "distanciabus1", "horaprediccionbus1", "ppubus1",
      "distanciabus2", "horaprediccionbus2", "ppubus2" }

(* data.servicios?.item?.filter(codigorespuesta === "00").map(...) || []   *)
ProcessResponse(data) ==
    IF IsNullish(data) THEN [threw |-> TRUE, value |-> << >>]
    ELSE LET servicios == Get(data, "servicios")
         IN  IF IsNullish(servicios) THEN [threw |-> FALSE, value |-> << >>]
             ELSE LET item == Get(servicios, "item")
                  IN  IF IsNullish(item) THEN [threw |-> FALSE, value |-> << >>]
                      ELSE IF item.t # "array" THEN [threw |-> TRUE, value |-> << >>]
                      ELSE IF \E i \in DOMAIN item.elements : IsNullish(item.elements[i])
                        THEN [threw |-> TRUE, value |-> << >>]
                      ELSE LET ok == SelectSeq(item.elements,
                                       LAMBDA e : /\ e.t = "object"
                                                  /\ "codigorespuesta" \in DOMAIN e.properties
                                                  /\ e.properties["codigorespuesta"] = "00")
                           IN  [threw |-> FALSE,
                                value |-> [i \in DOMAIN ok |->
                                             [k \in DOMAIN ok[i].properties \cap ArrivalFields |->
                                                 ok[i].properties[k]]]]

Threw(type) == [kind |-> "threw", type |-> type, success |-> FALSE, data |-> << >>]

Returned(success, data) ==
    [kind |-> "returned", type |-> "", success |-> success, data |-> data]

(***************************************************************************)
(* StopService.getArrivals(codsimt), the upstream call answering with      *)
(* "upstream": a body, or an error thrown by redClient.getStopArrivals.    *)
(***************************************************************************)
getArrivals(codsimt, upstream) ==
    IF validateAndCleanStopCode(codsimt).threw THEN Threw("ValidationError")
    ELSE IF upstream.kind = "error" THEN Returned(FALSE, << >>)
    ELSE IF ProcessResponse(upstream.body).threw THEN Returned(FALSE, << >>)
    ELSE Returned(TRUE, ProcessResponse(upstream.body).value)

(* formatArrivals without the final filter on the bus entries              *)
formatArrivalsUnfiltered(arrivals) ==
    [i \in DOMAIN arrivals |->
        LET arrival == arrivals[i]
            bus1 == Copy(arrival, "distanciabus1", "distancia")
                    @@ Copy(arrival, "horaprediccionbus1", "tiempo")
                    @@ Copy(arrival, "ppubus1", "patente")
            bus2 == IF Truthy(arrival, "distanciabus2")
                      THEN << [distancia |-> arrival["distanciabus2"],
                               tiempo |-> OrElse(arrival, "horaprediccionbus2", ""),
                               patente |-> OrElse(arrival, "ppubus2", "")] >>
                      ELSE << >>
        IN  Copy(arrival, "servicio", "servicio") @@ Copy(arrival, "destino", "destino")
            @@ ("buses" :> (<<bus1>> \o bus2))]

formatArrivals(arrivals) ==
    [i \in DOMAIN arrivals |->
        LET arrival == arrivals[i]
            bus1 == Copy(arrival, "distanciabus1", "distancia")
                    @@ Copy(arrival, "horaprediccionbus1", "tiempo")
                    @@ Copy(arrival, "ppubus1", "patente")
            bus2 == IF Truthy(arrival, "distanciabus2")
                      THEN << [distancia |-> arrival["distanciabus2"],
                               tiempo |-> OrElse(arrival, "horaprediccionbus2", ""),
                               patente |-> OrElse(arrival, "ppubus2", "")] >>
                      ELSE << >>
        IN  Copy(arrival, "servicio", "servicio") @@ Copy(arrival, "destino", "destino")
            @@ ("buses" :> SelectSeq(<<bus1>> \o bus2,
                              LAMBDA bus : Truthy(bus, "distancia") /\ Truthy(bus, "tiempo")))]

(* parseInt of the text after ":" when there is one, else of the text; -1  *)
(* stands for NaN                                                          *)
NaN == -1

ParseTime(label) ==
    CASE label = "12:05" -> 5
      [] label = "12:30" -> 30
      [] OTHER -> NaN

(* the entries pushed for one record, lines 855-875                        *)
BusesOf(arrival) ==
    (IF Truthy(arrival, "horaprediccionbus1") /\ Truthy(arrival, "distanciabus1")
       THEN << [numero |-> 1,
                distancia |-> arrival["distanciabus1"],
                tiempoLlegada |-> arrival["horaprediccionbus1"],
                ppu |-> OrElse(arrival, "ppubus1", "N/A")] >>
       ELSE << >>)
    \o
    (IF Truthy(arrival, "horaprediccionbus2") /\ Truthy(arrival, "distanciabus2")
       THEN << [numero |-> 2,
                distancia |-> arrival["distanciabus2"],
                tiempoLlegada |-> arrival["horaprediccionbus2"],
                ppu |-> OrElse(arrival, "ppubus2", "N/A")] >>
       ELSE << >>)

RECURSIVE AllBuses(_)
AllBuses(arrivals) ==
    IF arrivals = << >> THEN << >>
    ELSE BusesOf(Head(arrivals)) \o AllBuses(Tail(arrivals))

(***************************************************************************)
(* buses.sort((a, b) => timeA - timeB): a comparison with NaN counts as    *)
(* equal.  The sort is stable when the comparator is consistent; it is     *)
(* not when a NaN label meets two different numbers, and the order is then *)
(* implementation-defined.                                                 *)
(***************************************************************************)
SortByTime(buses) ==
    LET n == Len(buses)
        time(i) == ParseTime(buses[i].tiempoLlegada)
        cmp(i, j) == IF time(i) = NaN \/ time(j) = NaN THEN 0 ELSE time(i) - time(j)
        consistent ==
            ~ /\ \E i \in 1..n : time(i) = NaN
              /\ \E j, k \in 1..n : time(j) # NaN /\ time(k) # NaN /\ time(j) # time(k)
        orders ==
            IF consistent
              THEN { p \in Permutations(1..n) :
                       \A i, j \in 1..n :
                          i < j => \/ cmp(p[i], p[j]) < 0
                                   \/ cmp(p[i], p[j]) = 0 /\ p[i] < p[j] }
              ELSE Permutations(1..n)
    IN  { [i \in 1..n |-> buses[p[i]]] : p \in orders }

ByServiceFailure(codsimt, serviceCode) ==
    Returned(FALSE, [paradero |-> codsimt, servicio |-> serviceCode,
                     arrivals |-> << >>, totalBuses |-> 0, buses |-> << >>])

(***************************************************************************)
(* StopService.getArrivalsByService: the results it can give (more than    *)
(* one only where the order of the sort is implementation-defined).        *)
(***************************************************************************)
getArrivalsByService(codsimt, serviceCode, upstream) ==
    LET arrivalsResult == getArrivals(codsimt, upstream)
        serviceArrivals ==
            SelectSeq(arrivalsResult.data,
                      LAMBDA arrival :
                          toLowerCase(arrival["servicio"]) = toLowerCase(serviceCode))
    IN  IF arrivalsResult.kind = "threw" THEN {arrivalsResult}
        ELSE IF ~arrivalsResult.success THEN {ByServiceFailure(codsimt, serviceCode)}
        ELSE IF \E i \in DOMAIN arrivalsResult.data :
                    "servicio" \notin DOMAIN arrivalsResult.data[i]
          THEN {ByServiceFailure(codsimt, serviceCode)}
        ELSE IF serviceArrivals = << >> THEN {ByServiceFailure(codsimt, serviceCode)}
        ELSE { Returned(TRUE, [paradero |-> toUpperCase(codsimt),
                               servicio |-> toUpperCase(serviceCode),
                               arrivals |-> serviceArrivals,
                               totalBuses |-> Len(AllBuses(serviceArrivals)),
                               buses |-> sorted])
               : sorted \in SortByTime(AllBuses(serviceArrivals)) }

(***************************************************************************)
(* The inputs of the StopService calls.                                    *)
(***************************************************************************)
Missing == "(missing)"

Opt(k, v) == IF v = Missing THEN NoProperties ELSE k :> v

Distance == "1200 mts."
EtaRange == "Entre 03 Y 07 min."
Distance2 == "2500 mts."
EtaRange2 == "Entre 08 Y 12 min."
ServiceA == <<"4", "0", "5">>
ServiceB == <<"B", "1", "9">>

Bus1(d, t) ==
    Opt("distanciabus1", d) @@ Opt("horaprediccionbus1", t) @@ ("ppubus1" :> "ABCD12")

Bus2(d, t) ==
    Opt("distanciabus2", d) @@ Opt("horaprediccionbus2", t)
    @@ Opt("ppubus2", IF d \in {Missing, ""} THEN Missing ELSE "EFGH34")

Item(codigorespuesta, servicio, bus1, bus2) ==
    JsObject(("codigorespuesta" :> codigorespuesta) @@ ("servicio" :> servicio)
             @@ ("destino" :> "Centro") @@ bus1 @@ bus2)

(* every way a bus of a record can lack its distance or its prediction     *)
Bus1Shapes == {Missing, "", Distance} \X {Missing, "", EtaRange}

Bus2Shapes == {Missing, "", Distance2} \X {Missing, "", EtaRange2}

EmptinessItems ==
    { Item("00", ServiceA, Bus1(b1[1], b1[2]), Bus2(b2[1], b2[2])) :
        b1 \in Bus1Shapes, b2 \in Bus2Shapes }

ShapeItems ==
    { Item("00", ServiceA, Bus1(Distance, EtaRange), Bus2(Distance2, EtaRange2)),
      Item("00", ServiceA, Bus1(Distance, "12:30"), Bus2(Distance2, "12:05")),
      Item("00", ServiceB, Bus1(Distance, EtaRange), Bus2(Missing, Missing)),
      Item("01", ServiceA, Bus1(Missing, Missing), Bus2(Missing, Missing)),
      JsObject(("codigorespuesta" :> "00") @@ Bus1(Distance, EtaRange)),
      JsNull }

ItemLists ==
    UNION { [1..n -> ShapeItems] : n \in 0..MaxItems }
    \cup { <<e>> : e \in EmptinessItems }

FullItem == Item("00", ServiceA, Bus1(Distance, EtaRange), Bus2(Distance2, EtaRange2))

OtherItem == Item("00", ServiceB, Bus1(Distance, EtaRange), Bus2(Missing, Missing))

(* the nested collection delivered as a map of records                     *)
MapForm == JsObject("servicios" :> JsObject(("a" :> FullItem) @@ ("b" :> OtherItem)))

UnrecognisedBodies ==
    { JsNull,
      JsString(""),
      JsArray(<<FullItem>>),
      JsObject(NoProperties),
      JsObject("servicios" :> JsNull),
      JsObject("servicios" :> JsString("sin servicios")),
      JsObject("servicios" :> JsObject(NoProperties)),
      JsObject("servicios" :> JsObject("item" :> FullItem)),
      JsObject("servicios" :> JsObject("item" :> JsString("sin servicios"))),
      MapForm }

UpstreamBodies ==
    UnrecognisedBodies
    \cup { JsObject("servicios" :> JsObject("item" :> JsArray(items))) : items \in ItemLists }

(* what redClient.getStopArrivals gives: a body, or a thrown error         *)
UpstreamOutcomes ==
    { [kind |-> "data", body |-> body] : body \in UpstreamBodies }
    \cup { [kind |-> "error", body |-> JsUndefined] }

StopCodeInputs ==
    { << >>,
      <<"P", "A">>,
      <<"P", "A", "1">>,
      <<" ", "p", "a", "4", "3", "3", " ">>,
      <<"P", "A", "-", "1">>,
      Rep("A", MaxStopCodeLen + 1) }

ServiceCodeInputs == { ServiceA, <<"b", "1", "9">>, <<"1", "0", "8">> }

(* the records getArrivals can hand to formatArrivals                      *)
ArrivalLists ==
    { ProcessResponse(JsObject("servicios" :> JsObject("item" :> JsArray(items)))).value :
        items \in ItemLists }

(***************************************************************************)
(* One behaviour of SpecService is one call: StopService keeps no state    *)
(* between calls.                                                          *)
(***************************************************************************)
callGetArrivals ==
    /\ serviceCall = NoCall
    /\ \E codsimt \in StopCodeInputs, upstream \in UpstreamOutcomes :
          serviceCall' = [ op |-> "getArrivals", codsimt |-> codsimt,
                           serviceCode |-> << >>, upstream |-> upstream,
                           arrivals |-> << >>,
                           result |-> getArrivals(codsimt, upstream) ]
    /\ UNCHANGED <<now, ticks, clientVars, legacyVars, httpVars, processVars>>

callGetArrivalsByService ==
    /\ serviceCall = NoCall
    /\ \E codsimt \in StopCodeInputs, serviceCode \in ServiceCodeInputs,
          upstream \in UpstreamOutcomes :
          \E result \in getArrivalsByService(codsimt, serviceCode, upstream) :
              serviceCall' = [ op |-> "getArrivalsByService", codsimt |-> codsimt,
                               serviceCode |-> serviceCode, upstream |-> upstream,
                               arrivals |-> << >>,
                               result |-> result ]
    /\ UNCHANGED <<now, ticks, clientVars, legacyVars, httpVars, processVars>>

callFormatArrivals ==
    /\ serviceCall = NoCall
    /\ \E arrivals \in ArrivalLists :
          serviceCall' = [ op |-> "formatArrivals", codsimt |-> << >>,
                           serviceCode |-> << >>,
                           upstream |-> [kind |-> "none", body |-> JsUndefined],
                           arrivals |-> arrivals,
                           result |-> Returned(TRUE, formatArrivals(arrivals)) ]
    /\ UNCHANGED <<now, ticks, clientVars, legacyVars, httpVars, processVars>>

NextService ==
    \/ callGetArrivals
    \/ callGetArrivalsByService
    \/ callFormatArrivals

SpecService == Init /\ [][NextService]_vars

(***************************************************************************)
(* validateServiceCode / validateAndCleanServiceCode (validators.ts).      *)
(***************************************************************************)
MinServiceCodeLen == 1
MaxServiceCodeLen == 10

(* /^[A-Za-z0-9\-_]+$/                                                     *)
IsServiceCodeText(str) ==
    /\ str # << >>
    /\ \A i \in DOMAIN str :
          \/ IsIn(UpperLetters, str[i]) \/ IsIn(LowerLetters, str[i])
          \/ str[i] \in Digits \/ str[i] \in {"-", "_"}

validateServiceCode(codser) ==
    IF codser = << >>
      THEN [valid |-> FALSE, error |-> "Codigo de servicio es requerido"]
    ELSE IF Len(trim(codser)) < MinServiceCodeLen
      THEN [valid |-> FALSE, error |-> "Codigo de servicio debe tener al menos 1 caracter"]
    ELSE IF Len(trim(codser)) > MaxServiceCodeLen
      THEN [valid |-> FALSE, error |-> "Codigo de servicio muy largo (maximo 10 caracteres)"]
    ELSE IF ~IsServiceCodeText(trim(codser))
      THEN [valid |-> FALSE, error |-> "Codigo de servicio contiene caracteres invalidos"]
    ELSE [valid |-> TRUE, error |-> ""]

(* throws ValidationError, or returns codser.trim()                        *)
validateAndCleanServiceCode(codser) ==
    IF validateServiceCode(codser).valid
      THEN [threw |-> FALSE, value |-> trim(codser)]
      ELSE [threw |-> TRUE, value |-> << >>]

(* validateStopRequest(req.params) and validateRouteRequest(req.params)    *)
validateStopRequest(codsimt) ==
    IF ~validateStopCode(codsimt).valid THEN [threw |-> TRUE, value |-> << >>]
    ELSE validateAndCleanStopCode(codsimt)

validateRouteRequest(codser) ==
    IF ~validateServiceCode(codser).valid THEN [threw |-> TRUE, value |-> << >>]
    ELSE validateAndCleanServiceCode(codser)

(***************************************************************************)
(* RouteService.  The answer of redClient.getRoute is "upstream": a body   *)
(* or a thrown RedClientError.  Each operation gives its result and the    *)
(* calls of redClient it made, in order.                                   *)
(***************************************************************************)
IsTruthy(x) ==
    /\ ~IsNullish(x)
    /\ x.t = "string" => x.text # ""

(* routeData.k || fallback, a property with a falsy value being left out   *)
(* of the record                                                           *)
FieldOr(x, k, fallback) ==
    IF x.t = "object" /\ k \in DOMAIN x.properties THEN x.properties[k] ELSE fallback

(* the RedRoute built from a leg, lines 36-42 and 220-237                  *)
RedRouteOf(leg) ==
    [ destino    |-> FieldOr(leg, "destino", ""),
      paraderos  |-> FieldOr(leg, "paraderos", << >>),
      path       |-> FieldOr(leg, "path", << >>),
      horarios   |-> FieldOr(leg, "horarios", << >>),
      itinerario |-> FieldOr(leg, "itinerario", FALSE) ]

EmptyRedRoute ==
    [ destino |-> "", paraderos |-> << >>, path |-> << >>, horarios |-> << >>,
      itinerario |-> FALSE ]

RouteRequest(code) == [method |-> "getRoute", code |-> code]

ArrivalsRequest(code) == [method |-> "getStopArrivals", code |-> code]

Outcome(result, requests) == [result |-> result, requests |-> requests]

(* RouteService.getRoute                                                   *)
getRoute(codser, upstream) ==
    LET clean == validateAndCleanServiceCode(codser)
        sent == << RouteRequest(clean.value) >>
        data == upstream.body
        routeData == IF IsTruthy(Get(data, "ida")) THEN Get(data, "ida")
                     ELSE Get(data, "regreso")
    IN  IF clean.threw THEN Outcome(Threw("ValidationError"), << >>)
        ELSE IF upstream.kind = "error" THEN Outcome(Returned(FALSE, EmptyRedRoute), sent)
        ELSE IF IsNullish(data) THEN Outcome(Returned(FALSE, EmptyRedRoute), sent)
        ELSE IF ~IsTruthy(routeData) THEN Outcome(Returned(FALSE, EmptyRedRoute), sent)
        ELSE Outcome(Returned(TRUE, RedRouteOf(routeData)), sent)

(* formatters.ts: formatRouteStops, formatRoute, formatSchedule            *)
StopHasAll(p) == {"cod", "name", "comuna", "pos"} \subseteq DOMAIN p

formatRouteStops(route) ==
    [i \in DOMAIN route.paraderos |->
        LET p == route.paraderos[i]
        IN  [ codigo |-> p["cod"], nombre |-> p["name"], comuna |-> p["comuna"],
              ubicacion |-> [latitud |-> p["pos"][1], longitud |-> p["pos"][2]] ]]

(* p.pos[0] throws a TypeError for a stop without pos                      *)
formatRouteThrows(route) ==
    \E i \in DOMAIN route.paraderos : "pos" \notin DOMAIN route.paraderos[i]

formatRoute(route) ==
    [ destino |-> route.destino,
      totalParaderos |-> Len(route.paraderos),
      paraderos |-> formatRouteStops(route),
      recorrido |-> [ puntos |-> Len(route.path),
                      coordenadas |-> [i \in DOMAIN route.path |->
                                         [longitud |-> route.path[i][1],
                                          latitud |-> route.path[i][2]]] ],
      horarios |-> [i \in DOMAIN route.horarios |->
                      [ tipo |-> route.horarios[i].tipoDia,
                        inicio |-> route.horarios[i].inicio,
                        fin |-> route.horarios[i].fin ]],
      tieneItinerario |-> route.itinerario ]

(* the labels are written without their accents                            *)
scheduleMap(tipoDia) ==
    CASE tipoDia \in {"LV", "LF", "L-V"} -> "Lunes a Viernes"
      [] tipoDia \in {"S", "SA"} -> "Sabados"
      [] tipoDia \in {"D", "DO"} -> "Domingos"
      [] tipoDia = "L-D" -> "Lunes a Domingo"
      [] OTHER -> tipoDia

(* the text "inicio - fin" of horario is given as the pair of its parts    *)
formatSchedule(horarios) ==
    [i \in DOMAIN horarios |->
        [ dia |-> scheduleMap(horarios[i].tipoDia),
          horario |-> << horarios[i].inicio, horarios[i].fin >>,
          inicio |-> horarios[i].inicio,
          fin |-> horarios[i].fin ]]

(* the first occurrences of the elements of a sequence: [...new Set(seq)]  *)
RECURSIVE Distinct(_)
Distinct(seq) ==
    IF seq = << >> THEN << >>
    ELSE LET front == Distinct(SubSeq(seq, 1, Len(seq) - 1))
             last == seq[Len(seq)]
         IN  IF \E i \in DOMAIN front : front[i] = last THEN front
             ELSE Append(front, last)

(* a copy that gives the result both legs, an empty one for a leg that     *)
(* upstream did not supply                                                 *)
LegsOfBoth(data) ==
    [k \in {"ida", "regreso"} |->
        IF IsTruthy(Get(data, k)) THEN RedRouteOf(Get(data, k)) ELSE EmptyRedRoute]

(* the legs getFullRoute copies: those upstream supplied with a truthy     *)
(* value, lines 219-239                                                    *)
LegsOf(data) ==
    [k \in {leg \in {"ida", "regreso"} : IsTruthy(Get(data, leg))} |->
        RedRouteOf(Get(data, k))]

ComunasOf(route) ==
    [i \in DOMAIN route.paraderos |-> route.paraderos[i]["comuna"]]

FullRouteFailure(codser) ==
    Returned(FALSE,
        [ servicio |-> codser,
          legs |-> [k \in {} |-> EmptyRedRoute],
          resumen |-> [ tieneIda |-> FALSE, tieneRegreso |-> FALSE,
                        totalParaderosIda |-> 0, totalParaderosRegreso |-> 0,
                        comunasUnicas |-> << >>,
                        horarios |-> [ida |-> << >>, regreso |-> << >>] ] ])

(* p.comuna of a stop without comuna is undefined and is added as such;    *)
(* the stops of the model all carry one                                    *)
getFullRoute(codser, upstream) ==
    LET clean == validateAndCleanServiceCode(codser)
        sent == << RouteRequest(clean.value) >>
        data == upstream.body
        legs == LegsOf(data)
        has(k) == k \in DOMAIN legs
    IN  IF clean.threw THEN Outcome(Threw("ValidationError"), << >>)
        ELSE IF upstream.kind = "error" THEN Outcome(FullRouteFailure(codser), sent)
        ELSE IF IsNullish(data) THEN Outcome(FullRouteFailure(codser), sent)
        ELSE Outcome(
               Returned(TRUE,
                 [ servicio |-> clean.value,
                   legs |-> legs,
                   resumen |->
                     [ tieneIda |-> has("ida"),
                       tieneRegreso |-> has("regreso"),
                       totalParaderosIda |->
                           IF has("ida") THEN Len(legs["ida"].paraderos) ELSE 0,
                       totalParaderosRegreso |->
                           IF has("regreso") THEN Len(legs["regreso"].paraderos) ELSE 0,
                       comunasUnicas |->
                           Distinct((IF has("ida") THEN ComunasOf(legs["ida"]) ELSE << >>)
                                    \o (IF has("regreso") THEN ComunasOf(legs["regreso"])
                                        ELSE << >>)),
                       horarios |->
                         [ ida |-> IF has("ida") THEN formatSchedule(legs["ida"].horarios)
                                   ELSE << >>,
                           regreso |-> IF has("regreso")
                                         THEN formatSchedule(legs["regreso"].horarios)
                                         ELSE << >> ] ] ]),
               sent)

FormattedRouteFailure(codser) ==
    Returned(FALSE,
        [ servicio |-> codser,
          route |-> formatRoute(EmptyRedRoute),
          metadata |-> [tieneIda |-> FALSE, tieneRegreso |-> FALSE,
                        comunasRecorridas |-> << >>] ])

(***************************************************************************)
(* RouteService.getFormattedRoute: getRoute, then a second call of         *)
(* redClient.getRoute with codser as it was given (line 134).  Whatever    *)
(* is thrown after getRoute leaves as a plain Error (lines 161-176).       *)
(* totalKilometros, a distance computed from the path, is left out of the  *)
(* result.                                                                 *)
(***************************************************************************)
getFormattedRoute(codser, upstream, upstream2) ==
    LET first == getRoute(codser, upstream)
        sent == first.requests \o << RouteRequest(codser) >>
        fullData == upstream2.body
    IN  IF first.result.kind = "threw" THEN first
        ELSE IF ~first.result.success
          THEN Outcome(FormattedRouteFailure(codser), first.requests)
        ELSE IF upstream2.kind = "error" THEN Outcome(Threw("Error"), sent)
        ELSE IF formatRouteThrows(first.result.data) THEN Outcome(Threw("Error"), sent)
        ELSE IF IsNullish(fullData) THEN Outcome(Threw("Error"), sent)
        ELSE Outcome(
               Returned(TRUE,
                 [ servicio |-> toUpperCase(codser),
                   route |-> formatRoute(first.result.data),
                   metadata |->
                     [ tieneIda |-> IsTruthy(Get(fullData, "ida")),
                       tieneRegreso |-> IsTruthy(Get(fullData, "regreso")),
                       comunasRecorridas |-> Distinct(ComunasOf(first.result.data)) ] ]),
               sent)

(* the stops grouped by comuna, the comunas in the order of their first    *)
(* stop                                                                    *)
ComunasMap(stops) ==
    LET nombres == Distinct([i \in DOMAIN stops |-> stops[i].comuna])
    IN  [n \in DOMAIN nombres |->
            LET own == SelectSeq(stops, LAMBDA stop : stop.comuna = nombres[n])
            IN  [ nombre |-> nombres[n],
                  totalParaderos |-> Len(own),
                  paraderos |-> [i \in DOMAIN own |-> own[i].codigo] ]]

(* RouteService.getRouteStops                                              *)
getRouteStops(codser, upstream) ==
    LET first == getRoute(codser, upstream)
        failure == Returned(FALSE, [servicio |-> codser, totalParaderos |-> 0,
                                    paraderos |-> << >>, comunas |-> << >>])
    IN  IF first.result.kind = "threw" THEN first
        ELSE IF ~first.result.success THEN Outcome(failure, first.requests)
        ELSE IF formatRouteThrows(first.result.data) THEN Outcome(failure, first.requests)
        ELSE Outcome(
               Returned(TRUE,
                 [ servicio |-> toUpperCase(codser),
                   totalParaderos |-> Len(first.result.data.paraderos),
                   paraderos |-> formatRouteStops(first.result.data),
                   comunas |-> ComunasMap(formatRouteStops(first.result.data)) ]),
               first.requests)

(* the minutes since midnight of the times of the model                    *)
MinutesOfDay(time) ==
    CASE time = "05:30" -> 330
      [] time = "06:30" -> 390
      [] time = "23:00" -> 1380

(* calculateDurationHours, in hundredths of an hour                        *)
calculateDurationHours(inicio, fin) ==
    (2 * 100 * (MinutesOfDay(fin) - MinutesOfDay(inicio)) + 60) \div (2 * 60)

processSchedules(horarios) ==
    [i \in DOMAIN horarios |->
        [ dia |-> horarios[i].dia, horario |-> horarios[i].horario,
          inicio |-> horarios[i].inicio, fin |-> horarios[i].fin,
          duracionHoras |-> calculateDurationHours(horarios[i].inicio, horarios[i].fin) ]]

(* the entry with the longest duration, the first of them; none when no    *)
(* entry lasts more than 0                                                 *)
RECURSIVE Widest(_, _)
Widest(prev, horarios) ==
    IF horarios = << >> THEN prev
    ELSE Widest(IF Head(horarios).duracionHoras > prev.duracionHoras
                  THEN [horario |-> Head(horarios).horario,
                        duracionHoras |-> Head(horarios).duracionHoras]
                  ELSE prev,
                Tail(horarios))

(* RouteService.getRouteSchedules: a failure of getFullRoute is thrown as  *)
(* a plain Error                                                           *)
getRouteSchedules(codser, upstream) ==
    LET full == getFullRoute(codser, upstream)
        horariosIda == processSchedules(full.result.data.resumen.horarios.ida)
        horariosRegreso == processSchedules(full.result.data.resumen.horarios.regreso)
        todos == horariosIda \o horariosRegreso
        widest == Widest([horario |-> << >>, duracionHoras |-> 0], todos)
    IN  IF full.result.kind = "threw" THEN full
        ELSE IF ~full.result.success THEN Outcome(Threw("Error"), full.requests)
        ELSE Outcome(
               Returned(TRUE,
                 [ servicio |-> toUpperCase(codser),
                   horarios |-> [ida |-> horariosIda, regreso |-> horariosRegreso],
                   resumen |->
                     [ operaLunesViernes |->
                           \E i \in DOMAIN todos :
                               todos[i].dia \in {"Lunes a Viernes", "Lunes a Domingo"},
                       operaSabados |-> \E i \in DOMAIN todos : todos[i].dia = "Sabados",
                       operaDomingos |->
                           \E i \in DOMAIN todos :
                               todos[i].dia \in {"Domingos", "Lunes a Domingo"},
                       horarioMasAmplio |-> widest.horario,
                       totalHorasOperacion |-> widest.duracionHoras ] ]),
               full.requests)

(***************************************************************************)
(* StopService: getFormattedArrivals, getEnhancedArrivals and              *)
(* getStopStatistics.  Each gives its result and the calls of redClient    *)
(* it made.  Timestamps are left out of the results.                       *)
(***************************************************************************)
(* generateArrivalsSummary: a.distanciabus1.toLowerCase() throws a         *)
(* TypeError for a record without distanciabus1.  The text is given by     *)
(* its variable parts.                                                     *)
SummaryThrows(arrivals) ==
    \E i \in DOMAIN arrivals : "distanciabus1" \notin DOMAIN arrivals[i]

generateArrivalsSummary(arrivals) ==
    [ servicios |-> Len(arrivals),
      llegando |-> Len(SelectSeq(arrivals, LAMBDA a : a["distanciabus1"] = "Llegando.")) ]

NoSummary == [servicios |-> 0, llegando |-> 0]

(* the call of redClient.getStopArrivals made by getArrivals               *)
ArrivalsRequests(codsimt) ==
    IF validateAndCleanStopCode(codsimt).threw THEN << >>
    ELSE << ArrivalsRequest(validateAndCleanStopCode(codsimt).value) >>

FormattedFailure(codsimt) ==
    Returned(FALSE, [paradero |-> codsimt, totalServicios |-> 0, arrivals |-> << >>,
                     resumen |-> NoSummary])

getFormattedArrivals(codsimt, upstream) ==
    LET arrivalsResult == getArrivals(codsimt, upstream)
        sent == ArrivalsRequests(codsimt)
    IN  IF arrivalsResult.kind = "threw" THEN Outcome(arrivalsResult, sent)
        ELSE IF ~arrivalsResult.success THEN Outcome(FormattedFailure(codsimt), sent)
        ELSE IF SummaryThrows(arrivalsResult.data)
          THEN Outcome(FormattedFailure(codsimt), sent)
        ELSE Outcome(
               Returned(TRUE,
                 [ paradero |-> toUpperCase(codsimt),
                   totalServicios |-> Len(formatArrivals(arrivalsResult.data)),
                   arrivals |-> formatArrivals(arrivalsResult.data),
                   resumen |-> generateArrivalsSummary(arrivalsResult.data) ]),
               sent)

(* extractMinutesFromTime on the labels of the model                       *)
extractMinutesFromTime(timeString) ==
    CASE timeString = "12:05" -> 5
      [] timeString = "12:30" -> 30
      [] timeString = "Entre 03 Y 07 min." -> 3
      [] timeString = "Entre 08 Y 12 min." -> 8
      [] timeString = "Menos de 2 min." -> 2
      [] OTHER -> 0

(* record.servicio, undefined being written as the text it prints as       *)
Undefined == <<"u", "n", "d", "e", "f", "i", "n", "e", "d">>

ServicioOf(record) == IF "servicio" \in DOMAIN record THEN record["servicio"] ELSE Undefined

(* the predictions of the records, in the order forEach visits them        *)
RECURSIVE Predictions(_)
Predictions(arrivals) ==
    IF arrivals = << >> THEN << >>
    ELSE LET a == Head(arrivals)
             one(k) == IF Truthy(a, k)
                         THEN << [servicio |-> ServicioOf(a),
                                  minutos |-> extractMinutesFromTime(a[k])] >>
                         ELSE << >>
         IN  one("horaprediccionbus1") \o one("horaprediccionbus2")
             \o Predictions(Tail(arrivals))

RECURSIVE Sum(_)
Sum(seq) == IF seq = << >> THEN 0 ELSE Head(seq) + Sum(Tail(seq))

(* Math.round(a / b) for a >= 0, b > 0                                     *)
Round(a, b) == (2 * a + b) \div (2 * b)

NoFastest == << >>

Analisis(arrivals) ==
    LET tiempos == Predictions(arrivals)
        soon == SelectSeq(tiempos, LAMBDA e : e.minutos <= 2)
        least == CHOOSE i \in DOMAIN soon :
                    \A j \in DOMAIN soon :
                        \/ soon[i].minutos < soon[j].minutos
                        \/ soon[i].minutos = soon[j].minutos /\ i <= j
    IN  [ busesLlegando |-> Len(soon),
          busesProximos |->
              Len(SelectSeq(tiempos, LAMBDA e : e.minutos > 2 /\ e.minutos <= 10)),
          servicioMasRapido |-> IF soon = << >> THEN NoFastest ELSE soon[least].servicio,
          tiempoPromedioEspera |->
              IF tiempos = << >> THEN 0
              ELSE Round(Sum([i \in DOMAIN tiempos |-> tiempos[i].minutos]), Len(tiempos)) ]

EnhancedFailure(codsimt) ==
    Returned(FALSE,
        [ paradero |-> codsimt, totalServicios |-> 0, arrivals |-> << >>,
          analisis |-> [ busesLlegando |-> 0, busesProximos |-> 0,
                         servicioMasRapido |-> NoFastest, tiempoPromedioEspera |-> 0 ],
          resumen |-> NoSummary ])

(* getEnhancedArrivals: the Error it throws on a failed getArrivals is     *)
(* caught by its own catch block, which returns the failure result         *)
getEnhancedArrivals(codsimt, upstream) ==
    LET arrivalsResult == getArrivals(codsimt, upstream)
        sent == ArrivalsRequests(codsimt)
        arrivals == arrivalsResult.data
    IN  IF arrivalsResult.kind = "threw" THEN Outcome(arrivalsResult, sent)
        ELSE IF ~arrivalsResult.success THEN Outcome(EnhancedFailure(codsimt), sent)
        ELSE IF SummaryThrows(arrivals) THEN Outcome(EnhancedFailure(codsimt), sent)
        ELSE Outcome(
               Returned(TRUE,
                 [ paradero |-> toUpperCase(codsimt),
                   totalServicios |->
                       Len(Distinct([i \in DOMAIN arrivals |-> ServicioOf(arrivals[i])])),
                   arrivals |-> formatArrivals(arrivals),
                   analisis |-> Analisis(arrivals),
                   resumen |-> generateArrivalsSummary(arrivals) ]),
               sent)

(***************************************************************************)
(* StopService.getStopStatistics.  The loop body is StatsStep: one call of *)
(* getArrivals, whose failure leaves the accumulators as they are.         *)
(* serviciosContador is an object: Object.entries lists its array-index    *)
(* keys first, in ascending numeric order, then the other keys in the      *)
(* order of their insertion.                                               *)
(***************************************************************************)
DigitValue(ch) ==
    CASE ch = "0" -> 0 [] ch = "1" -> 1 [] ch = "2" -> 2 [] ch = "3" -> 3
      [] ch = "4" -> 4 [] ch = "5" -> 5 [] ch = "6" -> 6 [] ch = "7" -> 7
      [] ch = "8" -> 8 [] ch = "9" -> 9

IsArrayIndex(key) ==
    /\ key # << >>
    /\ \A i \in DOMAIN key : key[i] \in Digits
    /\ Len(key) > 1 => key[1] # "0"

RECURSIVE ToNumber(_)
ToNumber(key) ==
    IF key = << >> THEN 0
    ELSE 10 * ToNumber(SubSeq(key, 1, Len(key) - 1)) + DigitValue(key[Len(key)])

RECURSIVE Ascending(_)
Ascending(keys) ==
    IF keys = {} THEN << >>
    ELSE LET least == CHOOSE k \in keys : \A other \in keys : ToNumber(k) <= ToNumber(other)
         IN  << least >> \o Ascending(keys \ {least})

(* Object.entries(serviciosContador), "inserted" being its keys in the     *)
(* order of their insertion                                                *)
Entries(contador, inserted) ==
    LET keys == Ascending({k \in DOMAIN contador : IsArrayIndex(k)})
                \o SelectSeq(inserted, LAMBDA k : ~IsArrayIndex(k))
    IN  [i \in DOMAIN keys |-> [servicio |-> keys[i], frecuencia |-> contador[keys[i]]]]

(* entries.sort((a, b) => b.frecuencia - a.frecuencia), a stable sort      *)
RECURSIVE SortByFrequency(_)
SortByFrequency(entries) ==
    IF entries = << >> THEN << >>
    ELSE LET front == SortByFrequency(SubSeq(entries, 1, Len(entries) - 1))
             last == entries[Len(entries)]
             before == SelectSeq(front, LAMBDA e : e.frecuencia >= last.frecuencia)
             after == SelectSeq(front, LAMBDA e : e.frecuencia < last.frecuencia)
         IN  before \o << last >> \o after

NoCounts == [k \in {} |-> 0]

EmptyStats == [historico |-> << >>, contador |-> NoCounts, inserted |-> << >>]

(* servicios.forEach: one more for the key of every record                 *)
RECURSIVE CountAll(_, _)
CountAll(acc, servicios) ==
    IF servicios = << >> THEN acc
    ELSE LET k == Head(servicios)
             seen == k \in DOMAIN acc.contador
         IN  CountAll(
               [ acc EXCEPT
                   !.contador = IF seen THEN [acc.contador EXCEPT ![k] = @ + 1]
                                ELSE acc.contador @@ (k :> 1),
                   !.inserted = IF seen THEN @ ELSE Append(@, k) ],
               Tail(servicios))

(* a turn of the loop that records a failed sample as an empty one         *)
StatsStepCountingFailures(acc, cleanCode, upstream) ==
    LET result == getArrivals(cleanCode, upstream)
        servicios == [i \in DOMAIN result.data |-> ServicioOf(result.data[i])]
    IN  CountAll(
          [ acc EXCEPT !.historico =
                Append(@, [ totalServicios |-> Len(servicios),
                            servicios |-> Distinct(servicios) ]) ],
          servicios)

(* one turn of the for loop, lines 1087-1117                               *)
StatsStep(acc, cleanCode, upstream) ==
    LET result == getArrivals(cleanCode, upstream)
        servicios == [i \in DOMAIN result.data |-> ServicioOf(result.data[i])]
    IN  IF result.kind = "threw" \/ ~result.success THEN acc
        ELSE CountAll(
               [ acc EXCEPT !.historico =
                     Append(@, [ totalServicios |-> Len(servicios),
                                 servicios |-> Distinct(servicios) ]) ],
               servicios)

RECURSIVE StatsLoop(_, _, _)
StatsLoop(acc, cleanCode, upstreams) ==
    IF upstreams = << >> THEN acc
    ELSE StatsLoop(StatsStep(acc, cleanCode, Head(upstreams)), cleanCode, Tail(upstreams))

(***************************************************************************)
(* getStopStatistics(codsimt, samples, intervalMs), "upstreams" being the  *)
(* answers of the samples calls of redClient.getStopArrivals.              *)
(* promedioServiciosPorMuestra is given in tenths; serviciosDetectados, a  *)
(* sorted array without repetitions, as the set of its elements.           *)
(***************************************************************************)
getStopStatistics(codsimt, upstreams, intervalMs) ==
    LET clean == validateAndCleanStopCode(codsimt)
        acc == StatsLoop(EmptyStats, clean.value, upstreams)
        totalBusesDetectados ==
            Sum([i \in DOMAIN acc.historico |-> acc.historico[i].totalServicios])
    IN  IF clean.threw THEN Outcome(Threw("ValidationError"), << >>)
        ELSE Outcome(
               Returned(TRUE,
                 [ paradero |-> clean.value,
                   totalMuestras |-> Len(acc.historico),
                   intervaloSegundos |-> Round(intervalMs, MsPerSecond),
                   serviciosDetectados |-> DOMAIN acc.contador,
                   estadisticas |->
                     [ serviciosMasComunes |->
                           SortByFrequency(Entries(acc.contador, acc.inserted)),
                       promedioServiciosPorMuestra |->
                           IF acc.historico = << >> THEN 0
                           ELSE Round(10 * totalBusesDetectados, Len(acc.historico)),
                       totalBusesDetectados |-> totalBusesDetectados ],
                   historico |-> acc.historico ]),
               [i \in DOMAIN upstreams |-> ArrivalsRequest(clean.value)])

(***************************************************************************)
(* The HTTP layer: the middlewares validateStopParams and                  *)
(* validateRouteParams, the controllers and errorHandler.  A response is   *)
(* its status and the JSON body sent.                                      *)
(***************************************************************************)
Respond(status, body) == [status |-> status, body |-> body]

ErrorBody == [success |-> FALSE, error |-> "error"]

(* the fields of an error that errorHandler reads; "mentions" are the      *)
(* phrases it looks for that the message contains                          *)
ErrorOf(type, statusCode, code, mentions) ==
    [type |-> type, statusCode |-> statusCode, code |-> code, mentions |-> mentions]

(* what a service throws: a ValidationError, or an Error made from the     *)
(* message of the failure                                                  *)
ThrownBy(result) == ErrorOf(result.type, 0, "", {})

errorHandler(error) ==
    IF error.type = "ValidationError" THEN Respond(400, ErrorBody)
    ELSE IF error.type = "RedClientError"
      THEN Respond(IF error.statusCode # 0 THEN error.statusCode ELSE 500, ErrorBody)
    ELSE IF "Too many requests" \in error.mentions THEN Respond(429, ErrorBody)
    ELSE IF error.code = "ECONNABORTED" \/ "timeout" \in error.mentions
      THEN Respond(504, ErrorBody)
    ELSE IF error.code \in {"ECONNREFUSED", "ENOTFOUND"} THEN Respond(503, ErrorBody)
    ELSE IF error.type = "SyntaxError" THEN Respond(400, ErrorBody)
    ELSE IF "Missing required parameter" \in error.mentions THEN Respond(400, ErrorBody)
    ELSE IF error.statusCode \in {404, 401, 403} THEN Respond(error.statusCode, ErrorBody)
    ELSE Respond(500, ErrorBody)

(* no service was called                                                   *)
NoOutcomeYet == Outcome([kind |-> "none", type |-> "", success |-> FALSE, data |-> << >>], << >>)

Handled(served, response) ==
    [service |-> served.result, requests |-> served.requests, response |-> response]

(* if (!result.success) res.status(500).json(result) else res.json(result) *)
(* behind asyncErrorHandler                                                *)
SendResult(served) ==
    LET result == served.result
    IN  Handled(served,
          IF result.kind = "threw" THEN errorHandler(ThrownBy(result))
          ELSE IF ~result.success
            THEN Respond(500, [success |-> FALSE, data |-> result.data])
          ELSE Respond(200, [success |-> TRUE, data |-> result.data]))

(* res.json({ success: true, data: result.data, ... })                     *)
SendData(served) ==
    LET result == served.result
    IN  Handled(served,
          IF result.kind = "threw" THEN errorHandler(ThrownBy(result))
          ELSE Respond(200, [success |-> TRUE, data |-> result.data]))

Rejected == Handled(NoOutcomeYet, Respond(400, ErrorBody))

(* the stop controllers, behind validateStopParams                         *)
getStopArrivalsHandler(codsimt, upstream) ==
    LET params == validateStopRequest(codsimt)
    IN  IF params.threw THEN Rejected
        ELSE SendResult(Outcome(getArrivals(params.value, upstream),
                                ArrivalsRequests(params.value)))

getStopArrivalsFormattedHandler(codsimt, upstream) ==
    LET params == validateStopRequest(codsimt)
    IN  IF params.threw THEN Rejected
        ELSE SendResult(getFormattedArrivals(params.value, upstream))

(* the results the controller can send, busId being "" when the query      *)
(* does not carry it                                                       *)
getStopArrivalsByServiceHandler(codsimt, busId, upstream) ==
    LET params == validateStopRequest(codsimt)
    IN  IF params.threw THEN {Rejected}
        ELSE IF busId = << >> THEN {Rejected}
        ELSE { SendResult(Outcome(result, ArrivalsRequests(params.value))) :
                 result \in getArrivalsByService(params.value, busId, upstream) }

getStopArrivalsEnhancedHandler(codsimt, upstream) ==
    LET params == validateStopRequest(codsimt)
    IN  IF params.threw THEN Rejected
        ELSE SendData(getEnhancedArrivals(params.value, upstream))

DefaultSamples == 3
MinSamples == 1
MaxSamples == 10
DefaultInterval == 30000
MinInterval == 10000
MaxInterval == 300000

(* parseInt(query) || fallback, 0 standing for a parameter that is absent  *)
(* or is not a number                                                      *)
QueryOr(n, fallback) == IF n = 0 THEN fallback ELSE n

(* the number of polls a request for statistics makes                      *)
SamplesOf(codsimt, samples, interval) ==
    IF validateStopRequest(codsimt).threw THEN 0
    ELSE IF QueryOr(samples, DefaultSamples) < MinSamples THEN 0
    ELSE IF QueryOr(samples, DefaultSamples) > MaxSamples THEN 0
    ELSE IF QueryOr(interval, DefaultInterval) < MinInterval THEN 0
    ELSE IF QueryOr(interval, DefaultInterval) > MaxInterval THEN 0
    ELSE QueryOr(samples, DefaultSamples)

getStopStatisticsHandler(codsimt, samples, interval, upstreams) ==
    LET params == validateStopRequest(codsimt)
    IN  IF params.threw THEN Rejected
        ELSE IF SamplesOf(codsimt, samples, interval) = 0 THEN Rejected
        ELSE SendData(getStopStatistics(params.value, upstreams,
                                        QueryOr(interval, DefaultInterval)))

(* the route controllers, behind validateRouteParams                       *)
getRouteHandler(codser, upstream) ==
    LET params == validateRouteRequest(codser)
    IN  IF params.threw THEN Rejected
        ELSE SendResult(getRoute(params.value, upstream))

getRouteFormattedHandler(codser, upstream, upstream2) ==
    LET params == validateRouteRequest(codser)
    IN  IF params.threw THEN Rejected
        ELSE SendResult(getFormattedRoute(params.value, upstream, upstream2))

getFullRouteHandler(codser, upstream) ==
    LET params == validateRouteRequest(codser)
    IN  IF params.threw THEN Rejected
        ELSE SendResult(getFullRoute(params.value, upstream))

getRouteStopsHandler(codser, upstream) ==
    LET params == validateRouteRequest(codser)
    IN  IF params.threw THEN Rejected
        ELSE SendResult(getRouteStops(params.value, upstream))

getRouteSchedulesHandler(codser, upstream) ==
    LET params == validateRouteRequest(codser)
    IN  IF params.threw THEN Rejected
        ELSE SendData(getRouteSchedules(params.value, upstream))

(***************************************************************************)
(* The inputs of the HTTP requests: the codes of the path, the query, and  *)
(* what the upstream calls answer.                                         *)
(***************************************************************************)
MaxPolls == 3

Body(items) == JsObject("servicios" :> JsObject("item" :> JsArray(items)))

ThirdItem == Item("00", <<"1", "0", "8">>, Bus1(Distance, EtaRange), Bus2(Missing, Missing))

ArrivingItem ==
    Item("00", ServiceB, Bus1("Llegando.", "Menos de 2 min."), Bus2(Missing, Missing))

NoDistanceItem == Item("00", ServiceA, Bus1(Missing, EtaRange), Bus2(Missing, Missing))

Answer(body) == [kind |-> "data", body |-> body, type |-> "", status |-> 200]

(* an upstream call that throws: RedClientError(503) when the acquisition  *)
(* is exhausted, RedClientError(500) when the request fails, the TypeError *)
(* of the fallback's catch block                                           *)
Failure(type, status) == [kind |-> "error", body |-> JsUndefined, type |-> type, status |-> status]

Exhausted == Failure("RedClientError", 503)

ArrivalsFailures == { Exhausted, Failure("RedClientError", 500), Failure("TypeError", 0) }

ArrivalsAnswers ==
    { Answer(body) : body \in { Body(<< >>), JsObject(NoProperties), JsNull,
                                 Body(<<FullItem>>), Body(<<FullItem, OtherItem>>),
                                 Body(<<ArrivingItem, FullItem>>),
                                 Body(<<NoDistanceItem>>) } }

ArrivalsOutcomes == ArrivalsAnswers \cup ArrivalsFailures

SampleOutcomes ==
    { Exhausted, Answer(JsNull), Answer(Body(<< >>)),
      Answer(Body(<<FullItem, FullItem, ThirdItem>>)),
      Answer(Body(<<OtherItem, FullItem>>)) }

BusIdInputs == ServiceCodeInputs \cup { << >>, <<"4", "0", "5", "!">> }

SamplesInputs == (0..MaxPolls) \cup {-1, MaxSamples + 1}

IntervalInputs == {0, MinInterval - 1}

RouteCodeInputs ==
    { << >>,
      ServiceA,
      <<"b", "1", "9">>,
      <<" ", "b", "1", "9", " ">>,
      <<"I", "0", "9", "_", "e">>,
      <<"4", "0", "5", "!">>,
      Rep("A", MaxServiceCodeLen + 1) }

(* a stop of a leg; the one without pos is not a RedRouteStop              *)
Stop(cod, comuna) ==
    [cod |-> cod, name |-> "Parada", comuna |-> comuna, pos |-> <<-33, -70>>]

StopWithoutPos == [cod |-> <<"P", "A", "9">>, name |-> "Parada", comuna |-> "Maipu"]

LegFields ==
    ("destino" :> "Centro")
    @@ ("paraderos" :> << Stop(<<"P", "A", "1">>, "Santiago"),
                          Stop(<<"P", "A", "2">>, "Providencia"),
                          Stop(<<"P", "A", "3">>, "Santiago") >>)
    @@ ("path" :> << <<-70, -33>>, <<-71, -34>> >>)
    @@ ("horarios" :> << [tipoDia |-> "LV", inicio |-> "05:30", fin |-> "23:00"],
                         [tipoDia |-> "S", inicio |-> "06:30", fin |-> "23:00"] >>)
    @@ ("itinerario" :> TRUE)

Without(properties, k) == [name \in DOMAIN properties \ {k} |-> properties[name]]

FullLeg == JsObject(LegFields)

OtherLeg ==
    JsObject(("destino" :> "Maipu")
             @@ ("paraderos" :> << Stop(<<"P", "B", "7">>, "Maipu") >>))

MalformedLeg == JsObject([LegFields EXCEPT !["paraderos"] = << StopWithoutPos >>])

(* a leg as upstream can give it: every field is optional                  *)
IdaShapes ==
    { FullLeg, JsObject(NoProperties), MalformedLeg }
    \cup { JsObject(Without(LegFields, k)) : k \in DOMAIN LegFields }

RegresoShapes == { FullLeg, OtherLeg }

(* the body does not have the leg                                          *)
NoLeg == [t |-> "absent"]

OptLeg(k, leg) == IF leg.t = "absent" THEN NoProperties ELSE k :> leg

RouteBodies ==
    { JsNull }
    \cup { JsObject(OptLeg("ida", ida) @@ OptLeg("regreso", regreso)) :
             ida \in IdaShapes \cup {NoLeg, JsNull},
             regreso \in RegresoShapes \cup {NoLeg, JsNull} }

RouteFailures == { Failure("RedClientError", 500) }

RouteOutcomes == { Answer(body) : body \in RouteBodies } \cup RouteFailures

(* the answers of the second call made by getFormattedRoute                *)
SecondRouteOutcomes ==
    { Answer(JsNull),
      Answer(JsObject(NoProperties)),
      Answer(JsObject(("ida" :> FullLeg) @@ ("regreso" :> OtherLeg))),
      Answer(JsObject("ida" :> FullLeg)) }
    \cup RouteFailures

(***************************************************************************)
(* One behaviour of SpecHttp is one request: the controllers keep no state *)
(* between requests.                                                       *)
(***************************************************************************)
Request(endpoint, code, busId, samples, interval, upstreams, handled) ==
    [ endpoint |-> endpoint, code |-> code, busId |-> busId, samples |-> samples,
      interval |-> interval, upstreams |-> upstreams,
      service |-> handled.service, requests |-> handled.requests,
      response |-> handled.response ]

requestStopArrivals ==
    /\ httpCall = NoRequest
    /\ \E codsimt \in StopCodeInputs, upstream \in ArrivalsOutcomes :
            httpCall' =
                Request("stops/arrivals", codsimt, << >>, 0, 0, <<upstream>>,
                        getStopArrivalsHandler(codsimt, upstream))
    /\ UNCHANGED <<now, ticks, clientVars, legacyVars, serviceVars, processVars>>

requestStopArrivalsFormatted ==
    /\ httpCall = NoRequest
    /\ \E codsimt \in StopCodeInputs, upstream \in ArrivalsOutcomes :
            httpCall' =
                Request("stops/formatted", codsimt, << >>, 0, 0, <<upstream>>,
                        getStopArrivalsFormattedHandler(codsimt, upstream))
    /\ UNCHANGED <<now, ticks, clientVars, legacyVars, serviceVars, processVars>>

requestStopArrivalsByService ==
    /\ httpCall = NoRequest
    /\ \E codsimt \in StopCodeInputs, busId \in BusIdInputs, upstream \in ArrivalsOutcomes :
            \E handled \in getStopArrivalsByServiceHandler(codsimt, busId, upstream) :
                httpCall' =
                    Request("stops/service", codsimt, busId, 0, 0, <<upstream>>, handled)
    /\ UNCHANGED <<now, ticks, clientVars, legacyVars, serviceVars, processVars>>

requestStopArrivalsEnhanced ==
    /\ httpCall = NoRequest
    /\ \E codsimt \in StopCodeInputs, upstream \in ArrivalsOutcomes :
            httpCall' =
                Request("stops/enhanced", codsimt, << >>, 0, 0, <<upstream>>,
                        getStopArrivalsEnhancedHandler(codsimt, upstream))
    /\ UNCHANGED <<now, ticks, clientVars, legacyVars, serviceVars, processVars>>

requestStopStatistics ==
    /\ httpCall = NoRequest
    /\ \E codsimt \in StopCodeInputs, samples \in SamplesInputs, interval \in IntervalInputs :
            \E upstreams \in [1..SamplesOf(codsimt, samples, interval) -> SampleOutcomes] :
                httpCall' =
                    Request("stops/statistics", codsimt, << >>, samples, interval, upstreams,
                            getStopStatisticsHandler(codsimt, samples, interval, upstreams))
    /\ UNCHANGED <<now, ticks, clientVars, legacyVars, serviceVars, processVars>>

requestRoute ==
    /\ httpCall = NoRequest
    /\ \E codser \in RouteCodeInputs, upstream \in RouteOutcomes :
            httpCall' =
                Request("routes/route", codser, << >>, 0, 0, <<upstream>>,
                        getRouteHandler(codser, upstream))
    /\ UNCHANGED <<now, ticks, clientVars, legacyVars, serviceVars, processVars>>

requestRouteFormatted ==
    /\ httpCall = NoRequest
    /\ \E codser \in RouteCodeInputs, upstream \in RouteOutcomes,
           upstream2 \in SecondRouteOutcomes :
            httpCall' =
                Request("routes/formatted", codser, << >>, 0, 0, <<upstream, upstream2>>,
                        getRouteFormattedHandler(codser, upstream, upstream2))
    /\ UNCHANGED <<now, ticks, clientVars, legacyVars, serviceVars, processVars>>

requestFullRoute ==
    /\ httpCall = NoRequest
    /\ \E codser \in RouteCodeInputs, upstream \in RouteOutcomes :
            httpCall' =
                Request("routes/full", codser, << >>, 0, 0, <<upstream>>,
                        getFullRouteHandler(codser, upstream))
    /\ UNCHANGED <<now, ticks, clientVars, legacyVars, serviceVars, processVars>>

requestRouteStops ==
    /\ httpCall = NoRequest
    /\ \E codser \in RouteCodeInputs, upstream \in RouteOutcomes :
            httpCall' =
                Request("routes/stops", codser, << >>, 0, 0, <<upstream>>,
                        getRouteStopsHandler(codser, upstream))
    /\ UNCHANGED <<now, ticks, clientVars, legacyVars, serviceVars, processVars>>

requestRouteSchedules ==
    /\ httpCall = NoRequest
    /\ \E codser \in RouteCodeInputs, upstream \in RouteOutcomes :
            httpCall' =
                Request("routes/schedules", codser, << >>, 0, 0, <<upstream>>,
                        getRouteSchedulesHandler(codser, upstream))
    /\ UNCHANGED <<now, ticks, clientVars, legacyVars, serviceVars, processVars>>

NextHttp ==
    \/ requestStopArrivals
    \/ requestStopArrivalsFormatted
    \/ requestStopArrivalsByService
    \/ requestStopArrivalsEnhanced
    \/ requestStopStatistics
    \/ requestRoute
    \/ requestRouteFormatted
    \/ requestFullRoute
    \/ requestRouteStops
    \/ requestRouteSchedules

SpecHttp == Init /\ [][NextHttp]_vars

(***************************************************************************)
(* StopService.getStopStatistics as a process: the for loop of lines       *)
(* 1086-1118 with its two awaits, the call of getArrivals (pc "poll") and  *)
(* the setTimeout of intervalMs (pc "delay").  polls and delays count the  *)
(* calls of getArrivals and of setTimeout made so far, inFlight the calls  *)
(* of getArrivals not yet completed, completedAt is Date.now() at the end  *)
(* of the last completed call.                                             *)
(***************************************************************************)
StatsCode == <<"P", "A", "1">>

(* what a poll or the lateness of a timer adds to the clock                *)
Elapsed == {0, PauseMs}

StatsIntervals == {MinInterval, DefaultInterval}

Later(a, b) == IF a > b THEN a ELSE b

StatsRun(position, samples, intervalMs, i, acc, polls, delays, inFlight, due, completedAt) ==
    [ pc |-> position, samples |-> samples, intervalMs |-> intervalMs, i |-> i,
      acc |-> acc, polls |-> polls, delays |-> delays, inFlight |-> inFlight,
      wake |-> due, completedAt |-> completedAt ]

getStopStatisticsBegins ==
    /\ statsRun.pc = "idle"
    /\ \E samples \in 1..MaxPolls, intervalMs \in StatsIntervals :
          statsRun' = StatsRun("poll", samples, intervalMs, 0, EmptyStats, 1, 0, 1, 0, 0)
    /\ UNCHANGED <<now, ticks, clientVars, legacyVars, serviceVars, httpVars,
                   routeOut, timedRequest, loadTest>>

(* a completion after which the next call of getArrivals is made at once   *)
statisticsPollCompletesWithoutDelay ==
    /\ statsRun.pc = "poll"
    /\ \E upstream \in SampleOutcomes, d \in Elapsed :
          LET acc == StatsStep(statsRun.acc, StatsCode, upstream)
              r == statsRun
          IN  /\ now' = now + d
              /\ statsRun' =
                    IF r.i < r.samples - 1
                      THEN StatsRun("poll", r.samples, r.intervalMs, r.i + 1, acc,
                                    r.polls + 1, r.delays, 1, 0, now')
                      ELSE StatsRun("done", r.samples, r.intervalMs, r.i + 1, acc,
                                    r.polls, r.delays, 0, 0, now')
    /\ UNCHANGED <<ticks, clientVars, legacyVars, serviceVars, httpVars,
                   routeOut, timedRequest, loadTest>>

(* the awaited getArrivals returns (it does not throw for a clean code):   *)
(* the sample is tallied if it succeeded, then the timer is set unless     *)
(* this was the last turn, in which case the loop ends and the statistics  *)
(* are computed from the tallies                                           *)
statisticsPollCompletes ==
    /\ statsRun.pc = "poll"
    /\ \E upstream \in SampleOutcomes, d \in Elapsed :
          LET acc == StatsStep(statsRun.acc, StatsCode, upstream)
              r == statsRun
          IN  /\ now' = now + d
              /\ statsRun' =
                    IF r.i < r.samples - 1
                      THEN StatsRun("delay", r.samples, r.intervalMs, r.i, acc,
                                    r.polls, r.delays + 1, 0, now' + r.intervalMs, now')
                      ELSE StatsRun("done", r.samples, r.intervalMs, r.i + 1, acc,
                                    r.polls, r.delays, 0, 0, now')
    /\ UNCHANGED <<ticks, clientVars, legacyVars, serviceVars, httpVars,
                   routeOut, timedRequest, loadTest>>

(* the setTimeout of line 1110 fires, not before its due time, and the     *)
(* next turn of the loop calls getArrivals                                 *)
statisticsDelayElapses ==
    /\ statsRun.pc = "delay"
    /\ \E d \in Elapsed :
          LET r == statsRun
          IN  /\ now' = Later(now, r.wake) + d
              /\ statsRun' = StatsRun("poll", r.samples, r.intervalMs, r.i + 1, r.acc,
                                      r.polls + 1, r.delays, 1, 0, r.completedAt)
    /\ UNCHANGED <<ticks, clientVars, legacyVars, serviceVars, httpVars,
                   routeOut, timedRequest, loadTest>>

NextStatistics ==
    \/ getStopStatisticsBegins
    \/ statisticsPollCompletes
    \/ statisticsDelayElapses

SpecStatistics == Init /\ [][NextStatistics]_vars

(***************************************************************************)
(* One request for statistics under app.use(requestTimeout(30000)).        *)
(* timedRequest.timer is the setTimeout of the middleware, headersSent is  *)
(* res.headersSent, writes counts the responses written and status is the  *)
(* status of the written response.  res.json on a response whose headers   *)
(* have been sent throws ERR_HTTP_HEADERS_SENT (setHeader of node:http)    *)
(* and writes nothing; the exception reaches errorHandler through          *)
(* asyncErrorHandler, whose own res.status(...).json(...) throws again.    *)
(***************************************************************************)
RequestTimeoutMs == 30000

TimedIntervals == IntervalInputs \cup {MinInterval}

(* the middleware sets the timer and calls next(): the controller runs up  *)
(* to its first await, answering 400 at once for a bad query               *)
requestTimeout ==
    /\ timedRequest.pc = "idle"
    /\ statsRun.pc = "idle"
    /\ \E samples \in SamplesInputs, interval \in TimedIntervals :
          LET n == SamplesOf(StatsCode, samples, interval)
              armed == [NoTimedRequest EXCEPT !.timer = "pending",
                                              !.due = now + RequestTimeoutMs]
          IN  IF n = 0
                THEN /\ timedRequest' = [armed EXCEPT !.pc = "responded",
                                                      !.headersSent = TRUE,
                                                      !.writes = 1,
                                                      !.status = 400]
                     /\ UNCHANGED statsRun
                ELSE /\ timedRequest' = [armed EXCEPT !.pc = "running"]
                     /\ statsRun' = StatsRun("poll", n, QueryOr(interval, DefaultInterval),
                                             0, EmptyStats, 1, 0, 1, 0, 0)
    /\ UNCHANGED <<now, ticks, clientVars, legacyVars, serviceVars, httpVars,
                   routeOut, loadTest>>

(* the await of stopService.getStopStatistics returns and the controller   *)
(* calls res.json, part_004:143-147                                        *)
getStopStatisticsResponds ==
    /\ timedRequest.pc = "running"
    /\ statsRun.pc = "done"
    /\ timedRequest' =
          IF timedRequest.headersSent
            THEN [timedRequest EXCEPT !.pc = "threw"]
            ELSE [timedRequest EXCEPT !.pc = "responded", !.headersSent = TRUE,
                                      !.writes = @ + 1, !.status = 200]
    /\ UNCHANGED <<now, ticks, clientVars, legacyVars, serviceVars, httpVars,
                   routeOut, statsRun, loadTest>>

(* a timer callback that answers 408 without looking at res.headersSent    *)
requestTimeoutFiresUnchecked ==
    /\ timedRequest.timer = "pending"
    /\ now' = Later(now, timedRequest.due)
    /\ timedRequest' = [timedRequest EXCEPT !.timer = "fired", !.headersSent = TRUE,
                                            !.writes = @ + 1, !.status = 408]
    /\ UNCHANGED <<ticks, clientVars, legacyVars, serviceVars, httpVars,
                   routeOut, statsRun, loadTest>>

(* the callback of the timer, index.ts:1230-1240, not before its due time  *)
requestTimeoutFires ==
    /\ timedRequest.timer = "pending"
    /\ now' = Later(now, timedRequest.due)
    /\ timedRequest' =
          IF ~timedRequest.headersSent
            THEN [timedRequest EXCEPT !.timer = "fired", !.headersSent = TRUE,
                                      !.writes = @ + 1, !.status = 408]
            ELSE [timedRequest EXCEPT !.timer = "fired"]
    /\ UNCHANGED <<ticks, clientVars, legacyVars, serviceVars, httpVars,
                   routeOut, statsRun, loadTest>>

(* res.on('finish'): the written response has been handed over            *)
responseFinishes ==
    /\ timedRequest.headersSent
    /\ ~timedRequest.finished
    /\ ~timedRequest.closed
    /\ timedRequest' =
          [timedRequest EXCEPT !.finished = TRUE,
                               !.timer = IF @ = "pending" THEN "cleared" ELSE @]
    /\ UNCHANGED <<now, ticks, clientVars, legacyVars, serviceVars, httpVars,
                   routeOut, statsRun, loadTest>>

(* res.on('close'): the connection is closed, by the client at any time    *)
responseCloses ==
    /\ timedRequest.pc # "idle"
    /\ ~timedRequest.closed
    /\ timedRequest' =
          [timedRequest EXCEPT !.closed = TRUE,
                               !.timer = IF @ = "pending" THEN "cleared" ELSE @]
    /\ UNCHANGED <<now, ticks, clientVars, legacyVars, serviceVars, httpVars,
                   routeOut, statsRun, loadTest>>

NextTimeout ==
    \/ requestTimeout
    \/ statisticsPollCompletes
    \/ statisticsDelayElapses
    \/ getStopStatisticsResponds
    \/ requestTimeoutFires
    \/ responseFinishes
    \/ responseCloses

SpecTimeout == Init /\ [][NextTimeout]_vars

(***************************************************************************)
(* runLoadTest(url, total, concurrency, delayMs), validators.ts:316-379.   *)
(* loadTest holds the locals launched and inFlight, the counters of        *)
(* summary, and the length of summary.samples.  pc "delay" is the await of *)
(* delay(delayMs) in the launching loop, pc "drain" the await of delay(10) *)
(* in the loop that waits for the requests in flight.  The callbacks of a  *)
(* request (then, catch, finally) run in one drain of the microtask queue. *)
(***************************************************************************)
MaxRequests == 11       \* largest total of a load test
MaxConcurrency == 3     \* largest concurrency of a load test

MaxSampleCount == 10

TotalInputs == {0, 1, 2, MaxRequests}

(* res.status of a request, -1 when fetch failed                           *)
Statuses == {200, 429, 404, 500, 302, -1}

(* a launchNext that looks only at the number of requests left             *)
RECURSIVE launchNextUnlimited(_)
launchNextUnlimited(t) ==
    IF t.launched < t.total
      THEN launchNextUnlimited([t EXCEPT !.launched = @ + 1, !.inFlight = @ + 1])
      ELSE t

(* launchNext, lines 330-362: its while loop starts requests as long as    *)
(* some are left and fewer than concurrency are in flight                  *)
RECURSIVE launchNext(_)
launchNext(t) ==
    IF t.launched < t.total /\ t.inFlight < t.concurrency
      THEN launchNext([t EXCEPT !.launched = @ + 1, !.inFlight = @ + 1])
      ELSE t

(* the test of the launching loop, line 365, and what follows it: another  *)
(* turn, or the loop of line 371, or printSummary                          *)
Continue(t) ==
    IF t.launched < t.total THEN [launchNext(t) EXCEPT !.pc = "delay"]
    ELSE IF t.inFlight > 0 THEN [t EXCEPT !.pc = "drain"]
    ELSE [t EXCEPT !.pc = "done"]

runLoadTest ==
    /\ loadTest.pc = "idle"
    /\ \E total \in TotalInputs, concurrency \in 1..MaxConcurrency :
          loadTest' = Continue([NoLoadTest EXCEPT !.total = total,
                                                  !.concurrency = concurrency])
    /\ UNCHANGED <<now, ticks, clientVars, legacyVars, serviceVars, httpVars,
                   routeOut, statsRun, timedRequest>>

(* delay(delayMs) of line 367 is over                                      *)
delayElapses ==
    /\ loadTest.pc = "delay"
    /\ loadTest' = Continue(loadTest)
    /\ UNCHANGED <<now, ticks, clientVars, legacyVars, serviceVars, httpVars,
                   routeOut, statsRun, timedRequest>>

(* delay(10) of line 372 is over                                           *)
drainElapses ==
    /\ loadTest.pc = "drain"
    /\ loadTest' = IF loadTest.inFlight > 0 THEN loadTest
                   ELSE [loadTest EXCEPT !.pc = "done"]
    /\ UNCHANGED <<now, ticks, clientVars, legacyVars, serviceVars, httpVars,
                   routeOut, statsRun, timedRequest>>

(* summary after the then callback of lines 335-351 for a result of the    *)
(* given status, the number of samples being "recorded"                    *)
Aggregate(t, status, recorded) ==
    [ t EXCEPT
        !.ok2xx = IF status >= 200 /\ status < 300 THEN @ + 1 ELSE @,
        !.rate429 = IF status = 429 THEN @ + 1 ELSE @,
        !.client4xx = IF status >= 400 /\ status < 500 /\ status # 429 THEN @ + 1 ELSE @,
        !.server5xx = IF status >= 500 /\ status < 600 THEN @ + 1 ELSE @,
        !.other = IF status < 200 \/ (status >= 300 /\ status < 400) \/ status >= 600
                    THEN @ + 1 ELSE @,
        !.samples = recorded,
        !.inFlight = @ - 1 ]

(* a completion that records a sample of every request                     *)
sendOneCompletesRecordingAll ==
    /\ loadTest.inFlight > 0
    /\ \E status \in Statuses :
          loadTest' = Aggregate(loadTest, status, loadTest.samples + 1)
    /\ UNCHANGED <<now, ticks, clientVars, legacyVars, serviceVars, httpVars,
                   routeOut, statsRun, timedRequest>>

(* a request completes: sendOne resolves (it catches the failure of fetch  *)
(* and resolves with status -1), the result is counted, a sample is kept   *)
(* while fewer than 10 are, and finally inFlight is decremented            *)
sendOneCompletes ==
    /\ loadTest.inFlight > 0
    /\ \E status \in Statuses :
          loadTest' = Aggregate(loadTest, status,
                                IF loadTest.samples < MaxSampleCount
                                  THEN loadTest.samples + 1 ELSE loadTest.samples)
    /\ UNCHANGED <<now, ticks, clientVars, legacyVars, serviceVars, httpVars,
                   routeOut, statsRun, timedRequest>>

NextLoadTest ==
    \/ runLoadTest
    \/ delayElapses
    \/ drainElapses
    \/ sendOneCompletes

(***************************************************************************)
(* SpecLoadTest: the timers of delay fire, and every request in flight     *)
(* completes.                                                              *)
(***************************************************************************)
SpecLoadTest ==
    /\ Init
    /\ [][NextLoadTest]_vars
    /\ WF_vars(delayElapses)
    /\ WF_vars(drainElapses)
    /\ WF_vars(sendOneCompletes)

(***************************************************************************)
(* Properties.                                                             *)
(***************************************************************************)

(* the credential is usable: token non-empty and now < expiry              *)
Usable(token, expiry, t) == token # << >> /\ t < expiry

(* in this step refreshJwtIfNeeded of call c returns without throwing      *)
RefreshReturns(c) == pc[c] \in {"idle", "primary", "fallback"} /\ pc'[c] = "arrivals"

(* in this step an acquisition attempt of call c succeeds                  *)
Acquires(c) == pc[c] \in {"primary", "fallback"} /\ pc'[c] = "arrivals"

(* in this step call c begins                                              *)
Begins(c) == pc[c] = "idle" /\ pc'[c] # "idle"

TtlSeconds == jwtCacheTime \div MsPerSecond

(* C1: whenever refreshJwtIfNeeded returns without throwing the cached     *)
(* credential is valid (token non-empty, now < expiry), and right after a  *)
(* successful acquisition getJwtCacheInfo reports hasToken, isValid and    *)
(* expiresIn = 300 s.                                                      *)
C1_ValidOnReturn ==
    [][\A c \in Calls :
         /\ RefreshReturns(c) => Usable(jwtCache'.token, jwtCache'.expiry, now')
         /\ Acquires(c) =>
              CacheInfo(jwtCache', now') =
                [hasToken |-> TRUE, expiresIn |-> TtlSeconds, isValid |-> TRUE]]_vars

(* C2: a call that begins while the cached credential is valid sends its   *)
(* arrivals request with the cached token and issues no token acquisition  *)
(* request, neither when it begins nor later.                              *)
C2_NoAcquisitionWhileValid ==
    [][\A c \in Calls :
         /\ (Begins(c) /\ Usable(jwtCache.token, jwtCache.expiry, now)) =>
              /\ pc'[c] = "arrivals"
              /\ acquired'[c] = 0
              /\ sentToken'[c] = jwtCache.token
              /\ jwtCache' = jwtCache
         /\ (pc[c] = "arrivals" /\ acquired[c] = 0) =>
              (acquired'[c] = 0 /\ pc'[c] \in {"arrivals", "done"})]_vars

C2_Witness ==
    \E c \in Calls :
        /\ pc[c] = "arrivals" /\ acquired[c] = 0
        /\ sentToken[c] = jwtCache.token
        /\ Usable(jwtCache.token, jwtCache.expiry, now)
        /\ outcome.kind = "data"

(* C3: invalidateJwtCache leaves the cache empty from any state (so a      *)
(* second invalidate changes nothing) and getJwtCacheInfo then reports     *)
(* hasToken = false and isValid = false; a call that begins on the emptied *)
(* cache issues the primary acquisition request, and the token an          *)
(* acquiring call sends is the one its own acquisition wrote.              *)
C3_InvalidateForcesRefresh ==
    [][/\ invalidateJwtCache =>
            /\ jwtCache' = EmptyCache
            /\ ~CacheInfo(jwtCache', now').hasToken
            /\ ~CacheInfo(jwtCache', now').isValid
       /\ \A c \in Calls :
            /\ (Begins(c) /\ jwtCache = EmptyCache) =>
                  (pc'[c] = "primary" /\ acquired'[c] = 1)
            /\ Acquires(c) =>
                  /\ sentToken'[c] = jwtCache'.token
                  /\ jwtCache'.expiry = now' + jwtCacheTime]_vars

(* a call acquires on a cache emptied by invalidateJwtCache after an       *)
(* earlier call had ended with data, the clock not having advanced         *)
C3_Witness ==
    \E c \in Calls :
        /\ pc[c] = "primary"
        /\ jwtCache = EmptyCache
        /\ outcome.kind = "data"
        /\ ticks = 0

(* C4: getJwtCacheInfo and getConfig leave token and expiry unchanged, and *)
(* what they return holds presence, remaining seconds and validity (resp.  *)
(* the configuration), never the token.                                    *)
C4_IntrospectionReadOnly ==
    /\ [][(getJwtCacheInfo \/ getConfig) => jwtCache' = jwtCache]_vars
    /\ [](/\ DOMAIN infoOut = {"hasToken", "expiresIn", "isValid"}
          /\ infoOut.hasToken \in BOOLEAN
          /\ infoOut.isValid \in BOOLEAN
          /\ infoOut.expiresIn \in 0..TtlSeconds
          /\ configOut = config
          /\ "token" \notin DOMAIN configOut)

C4_Witness ==
    /\ infoOut.hasToken /\ ~infoOut.isValid
    /\ jwtCache.token # << >>
    /\ now >= jwtCache.expiry

(* C5: the credential counts as valid exactly when the token is non-empty  *)
(* and now < expiry: getJwtCacheInfo().isValid equals that, and a call     *)
(* triggers an acquisition if and only if it is false, also at             *)
(* now = expiry; past expiry expiresIn is 0.                               *)
C5_ValidExactlyBeforeExpiry ==
    /\ [](/\ CacheInfo(jwtCache, now).isValid = Usable(jwtCache.token, jwtCache.expiry, now)
          /\ now >= jwtCache.expiry => CacheInfo(jwtCache, now).expiresIn = 0)
    /\ [][/\ \A c \in Calls :
               Begins(c) => (pc'[c] = "primary" <=> ~Usable(jwtCache.token, jwtCache.expiry, now))
          /\ (legacyPc = "idle" /\ legacyPc' # "idle") =>
               (legacyPc' = "refresh" <=>
                  ~Usable(legacyCache.jwtToken, legacyCache.tokenExpiry, now))]_vars

(* C6: when the last acquisition attempt of a refresh fails like all the   *)
(* earlier ones, the call ends with RedClientError(503) and the cache is   *)
(* what it was.                                                            *)
C6_ExhaustionThrows503 ==
    [][\A c \in Calls :
         (pc[c] \in {"fallback", "pause"} /\ strategy[c] = NumStrategies /\ pc'[c] = "done") =>
            /\ outcome' = [call |-> c, kind |-> "error", type |-> "RedClientError", status |-> 503]
            /\ jwtCache' = jwtCache]_vars

(* C7: under every interleaving each arrivals request in flight carries a  *)
(* non-empty token, token and expiry change together, and a successful     *)
(* acquisition leaves its own credential in the cache (last writer wins).  *)
C7_ConcurrentRefreshesHarmless ==
    /\ [](\A c \in Calls : pc[c] = "arrivals" => sentToken[c] # << >>)
    /\ [][/\ jwtCache' # jwtCache =>
               \/ jwtCache' = EmptyCache
               \/ \E c \in Calls : Acquires(c) /\ jwtCache'.expiry = now' + jwtCacheTime
          /\ \A c \in Calls : Acquires(c) => sentToken'[c] = jwtCache'.token]_vars

(* the stop code of the last call passed validation and the upstream call  *)
(* delivered a body                                                        *)
Delivered(op) ==
    /\ serviceCall.op = op
    /\ validateStopCode(serviceCall.codsimt).valid
    /\ serviceCall.upstream.kind = "data"

(* C8: for an accepted stop code and an upstream body of any shape (null,  *)
(* a top-level array, an object without servicios, servicios.item a single *)
(* object or a string, ...) getArrivals returns success with a sequence as *)
(* data: no failure result and no exception.                               *)
C8_AnyShapeGivesSequence ==
    (Delivered("getArrivals") /\ serviceCall.upstream.body \in UnrecognisedBodies) =>
        /\ serviceCall.result.kind = "returned"
        /\ serviceCall.result.success
        /\ DOMAIN serviceCall.result.data = 1..Len(serviceCall.result.data)

(* C9: for the map form {servicios: {a: r1, b: r2}} getArrivals returns a  *)
(* sequence with exactly the values of the map, one record per entry.      *)
C9_MapFormGivesValues ==
    (Delivered("getArrivals") /\ serviceCall.upstream.body = MapForm) =>
        /\ serviceCall.result.success
        /\ Len(serviceCall.result.data) = 2
        /\ { serviceCall.result.data[i]["servicio"] : i \in DOMAIN serviceCall.result.data }
             = {ServiceA, ServiceB}

(* the record carries a text for k that is not empty                       *)
NonEmpty(record, k) == k \in DOMAIN record /\ record[k] # ""

(* how many buses of the record have both a distance and a prediction      *)
CompleteBuses(record) ==
    (IF NonEmpty(record, "distanciabus1") /\ NonEmpty(record, "horaprediccionbus1")
       THEN 1 ELSE 0)
    + (IF NonEmpty(record, "distanciabus2") /\ NonEmpty(record, "horaprediccionbus2")
         THEN 1 ELSE 0)

RECURSIVE TotalComplete(_)
TotalComplete(records) ==
    IF records = << >> THEN 0
    ELSE CompleteBuses(Head(records)) + TotalComplete(Tail(records))

(* C10: no bus entry of formatArrivals or of getArrivalsByService has an   *)
(* empty distance or an empty prediction; an entry of the second bus is    *)
(* there only when the record has both a non-empty distanciabus2 and a     *)
(* non-empty horaprediccionbus2; a record gives between 0 and 2 entries.   *)
C10_NoEmptyBusEntries ==
    /\ serviceCall.op = "formatArrivals" =>
         /\ Len(serviceCall.result.data) = Len(serviceCall.arrivals)
         /\ \A i \in DOMAIN serviceCall.result.data :
              LET buses == serviceCall.result.data[i]["buses"]
                  record == serviceCall.arrivals[i]
              IN  /\ Len(buses) \in 0..2
                  /\ Len(buses) <= CompleteBuses(record)
                  /\ \A j \in DOMAIN buses :
                       /\ NonEmpty(buses[j], "distancia")
                       /\ NonEmpty(buses[j], "tiempo")
                       /\ buses[j]["distancia"] = Distance2 =>
                            /\ NonEmpty(record, "distanciabus2")
                            /\ NonEmpty(record, "horaprediccionbus2")
    /\ (serviceCall.op = "getArrivalsByService" /\ serviceCall.result.kind = "returned") =>
         LET data == serviceCall.result.data
         IN  /\ Len(data.buses) <= 2 * Len(data.arrivals)
             /\ Len(data.buses) <= TotalComplete(data.arrivals)
             /\ \A j \in DOMAIN data.buses :
                  /\ data.buses[j].distancia # ""
                  /\ data.buses[j].tiempoLlegada # ""
                  /\ data.buses[j].numero = 2 =>
                       \E i \in DOMAIN data.arrivals :
                          /\ NonEmpty(data.arrivals[i], "distanciabus2")
                          /\ NonEmpty(data.arrivals[i], "horaprediccionbus2")
                          /\ data.arrivals[i]["distanciabus2"] = data.buses[j].distancia

(* formatArrivals was given a record whose second bus has a distance and   *)
(* no prediction, and kept only the first bus                              *)
C10_Witness ==
    /\ serviceCall.op = "formatArrivals"
    /\ \E i \in DOMAIN serviceCall.arrivals :
          /\ NonEmpty(serviceCall.arrivals[i], "distanciabus2")
          /\ ~NonEmpty(serviceCall.arrivals[i], "horaprediccionbus2")
          /\ Len(serviceCall.result.data[i]["buses"]) = 1
          /\ serviceCall.result.data[i]["buses"][1]["distancia"] = Distance

(***************************************************************************)
(* Properties of the services and of the HTTP layer (SpecHttp).            *)
(***************************************************************************)
StopEndpoints ==
    {"stops/arrivals", "stops/formatted", "stops/service", "stops/enhanced",
     "stops/statistics"}

RouteEndpoints ==
    {"routes/route", "routes/formatted", "routes/full", "routes/stops", "routes/schedules"}

(* the input trimmed and in upper case                                     *)
Normalised(code) == toUpperCase(trim(code))

(* C11: every stop code and every service code that reaches an upstream    *)
(* request is the trimmed, upper-cased input: the codsimt of the arrivals  *)
(* request and the service code of every route request, the two requests   *)
(* of getFormattedRoute included.                                          *)
C11_UpstreamCodesNormalised ==
    \A i \in DOMAIN httpCall.requests :
        httpCall.requests[i].code = Normalised(httpCall.code)

(* the documented languages: 2 to 10 alphanumeric characters for a stop    *)
(* code, 1 to 10 characters, each alphanumeric, "-" or "_", for a service  *)
(* code                                                                    *)
Alphanumeric(ch) == IsIn(UpperLetters, ch) \/ IsIn(LowerLetters, ch) \/ ch \in Digits

DocumentedStopCode(code) ==
    /\ Len(trim(code)) >= 2
    /\ Len(trim(code)) <= 10
    /\ \A i \in DOMAIN trim(code) : Alphanumeric(trim(code)[i])

DocumentedServiceCode(code) ==
    /\ Len(trim(code)) >= 1
    /\ Len(trim(code)) <= 10
    /\ \A i \in DOMAIN trim(code) : Alphanumeric(trim(code)[i]) \/ trim(code)[i] \in {"-", "_"}

(* C12: validateStopCode gives valid = true exactly for the documented     *)
(* stop codes and validateServiceCode exactly for the documented service   *)
(* codes; every other input gives valid = false with an error message.     *)
C12_ValidatorsAcceptDocumented ==
    /\ httpCall.endpoint \in StopEndpoints =>
          /\ validateStopCode(httpCall.code).valid <=> DocumentedStopCode(httpCall.code)
          /\ ~validateStopCode(httpCall.code).valid =>
                validateStopCode(httpCall.code).error # ""
    /\ httpCall.endpoint \in RouteEndpoints =>
          /\ validateServiceCode(httpCall.code).valid <=> DocumentedServiceCode(httpCall.code)
          /\ ~validateServiceCode(httpCall.code).valid =>
                validateServiceCode(httpCall.code).error # ""

(* the request carries a stop code or a service code that fails validation *)
FailsValidation ==
    \/ httpCall.endpoint \in StopEndpoints /\ ~validateStopCode(httpCall.code).valid
    \/ httpCall.endpoint \in RouteEndpoints /\ ~validateServiceCode(httpCall.code).valid
    \/ httpCall.endpoint = "stops/service" /\ ~validateServiceCode(httpCall.busId).valid

(* C13: a request whose stop code or service code fails validation is      *)
(* answered with 400 and no upstream request is issued; a ValidationError  *)
(* thrown by a service is answered with 400 as well.                       *)
C13_InvalidCodeGives400 ==
    /\ FailsValidation => httpCall.response.status = 400 /\ httpCall.requests = << >>
    /\ (httpCall.service.kind = "threw" /\ httpCall.service.type = "ValidationError") =>
          httpCall.response.status = 400

(* the request passed the middleware and the controller called the service *)
Served(endpoints) == httpCall.endpoint \in endpoints /\ httpCall.service.kind # "none"

(* the poll was answered with a body from which arrivals can be read       *)
Succeeds(upstream) == upstream.kind = "data" /\ ~ProcessResponse(upstream.body).threw

(* the number of samples the request asks for                              *)
AskedSamples == IF httpCall.samples = 0 THEN DefaultSamples ELSE httpCall.samples

(* C14: getStopStatistics with a valid code attempts all N polls whatever  *)
(* number of them fails: it returns success, totalMuestras is the number   *)
(* of successful samples, and when every sample fails the statistics are   *)
(* empty (totalMuestras 0, no serviciosMasComunes, average 0).             *)
C14_StatisticsSkipFailedSamples ==
    Served({"stops/statistics"}) =>
        LET data == httpCall.service.data
            good == Len(SelectSeq(httpCall.upstreams, Succeeds))
        IN  /\ Len(httpCall.requests) = AskedSamples
            /\ httpCall.service.kind = "returned"
            /\ httpCall.service.success
            /\ data.totalMuestras = good
            /\ good = 0 =>
                  /\ data.estadisticas.serviciosMasComunes = << >>
                  /\ data.estadisticas.promedioServiciosPorMuestra = 0

(* three polls are asked for, the first fails and the other two succeed:   *)
(* all three are attempted and two are counted                             *)
C14_Witness ==
    /\ Served({"stops/statistics"})
    /\ Len(httpCall.upstreams) = 3
    /\ ~Succeeds(httpCall.upstreams[1])
    /\ Succeeds(httpCall.upstreams[2])
    /\ Succeeds(httpCall.upstreams[3])
    /\ Len(httpCall.requests) = 3
    /\ httpCall.service.data.totalMuestras = 2

(* the service codes observed in a sample                                  *)
CodesOf(upstream) ==
    LET records == ProcessResponse(upstream.body).value
    IN  { ServicioOf(records[i]) : i \in DOMAIN records }

(* C15: the frequency reported for a service code is the number of samples *)
(* in which it was observed, and the average (in tenths) is the mean       *)
(* number of distinct service codes per sample: one sample 405, 405, 108   *)
(* gives 405 -> 1, 108 -> 1 and average 2.                                 *)
C15_FrequenciesCountSamples ==
    Served({"stops/statistics"}) =>
        LET stats == httpCall.service.data.estadisticas
            good == SelectSeq(httpCall.upstreams, Succeeds)
            distinct == [i \in DOMAIN good |-> Cardinality(CodesOf(good[i]))]
        IN  /\ \A i \in DOMAIN stats.serviciosMasComunes :
                  stats.serviciosMasComunes[i].frecuencia =
                      Len(SelectSeq(good, LAMBDA u :
                              stats.serviciosMasComunes[i].servicio \in CodesOf(u)))
            /\ stats.promedioServiciosPorMuestra =
                  IF good = << >> THEN 0 ELSE Round(10 * Sum(distinct), Len(good))

(* upstream answered the route request, and its body has the leg           *)
Supplied(k) ==
    /\ httpCall.upstreams[1].kind = "data"
    /\ httpCall.upstreams[1].body.t = "object"
    /\ k \in DOMAIN httpCall.upstreams[1].body.properties
    /\ httpCall.upstreams[1].body.properties[k].t = "object"

SuppliedField(k, field, default) ==
    LET leg == httpCall.upstreams[1].body.properties[k].properties
    IN  IF field \in DOMAIN leg THEN leg[field] ELSE default

(* the leg of the result has every field: upstream's, or the default       *)
Defaulted(k, leg) ==
    /\ leg.destino = SuppliedField(k, "destino", "")
    /\ leg.paraderos = SuppliedField(k, "paraderos", << >>)
    /\ leg.path = SuppliedField(k, "path", << >>)
    /\ leg.horarios = SuppliedField(k, "horarios", << >>)
    /\ leg.itinerario = SuppliedField(k, "itinerario", FALSE)

FullRouteLegs ==
    LET legs == httpCall.service.data.legs
    IN  /\ \A k \in {"ida", "regreso"} :
              /\ k \in DOMAIN legs <=> Supplied(k)
              /\ k \in DOMAIN legs => Defaulted(k, legs[k])
        /\ (Supplied("ida") /\ ~Supplied("regreso")) =>
              /\ "regreso" \notin DOMAIN legs
              /\ ~formatRouteThrows(legs["ida"])

StopsHavePos ==
    \A k \in {"ida", "regreso"} :
        Supplied(k) =>
            LET paraderos == SuppliedField(k, "paraderos", << >>)
            IN  \A i \in DOMAIN paraderos : "pos" \in DOMAIN paraderos[i]

NoLegs ==
    /\ httpCall.upstreams[1].kind = "data"
    /\ httpCall.upstreams[1].body.t = "object"
    /\ ~Supplied("ida")
    /\ ~Supplied("regreso")

(* upstream answered the arrivals request with zero services               *)
NoServices ==
    /\ httpCall.upstreams[1].kind = "data"
    /\ httpCall.upstreams[1].body = Body(<< >>)

(* C17: absence of data is not an error: a route answer without legs and   *)
(* an arrivals answer with zero services give a success result, and the    *)
(* response is not a 5xx.                                                  *)
C17_AbsenceIsNotAnError ==
    (\/ Served(RouteEndpoints) /\ NoLegs
     \/ Served(StopEndpoints \ {"stops/statistics", "stops/service"}) /\ NoServices)
        => /\ httpCall.service.kind = "returned"
           /\ httpCall.service.success
           /\ httpCall.response.status < 500

(* C18: when the arrivals request fails because the acquisition is         *)
(* exhausted, the error goes through the service with its type and the     *)
(* response status is 503 or 504.                                          *)
C18_ExhaustionIsUnavailability ==
    (Served(StopEndpoints \ {"stops/statistics"}) /\ httpCall.upstreams[1] = Exhausted)
        => /\ httpCall.service.kind = "threw"
           /\ httpCall.service.type = "RedClientError"
           /\ httpCall.response.status \in {503, 504}

(* an upstream request of the handler failed                               *)
UpstreamFailed ==
    \E i \in DOMAIN httpCall.requests : httpCall.upstreams[i].kind = "error"

(* C20: for every stop or route endpoint other than statistics, a failed   *)
(* upstream call gives a response that reports the failure: success =      *)
(* false with an error status.                                             *)
C20_UpstreamFailureReported ==
    (httpCall.endpoint # "stops/statistics" /\ UpstreamFailed)
        => /\ ~httpCall.response.body.success
           /\ httpCall.response.status >= 400

(***************************************************************************)
(* Properties of a call of RedClient.getStopArrivals (SpecTermination).    *)
(***************************************************************************)
(* the call has been started and has not ended                             *)
Running(c) == pc[c] \notin {"idle", "done"}

C21_TwoStateCredential ==
    [][/\ (~Usable(jwtCache.token, jwtCache.expiry, now)
            /\ Usable(jwtCache'.token, jwtCache'.expiry, now')) =>
              \E c \in Calls : Acquires(c)
       /\ (Usable(jwtCache.token, jwtCache.expiry, now)
            /\ ~Usable(jwtCache'.token, jwtCache'.expiry, now')) =>
              \/ jwtCache' = jwtCache /\ now' >= jwtCache.expiry
              \/ invalidateJwtCache
       /\ jwtCache' # jwtCache =>
              \/ \E c \in Calls : Acquires(c)
              \/ invalidateJwtCache]_vars

(* call c is inside refreshJwtIfNeeded                                     *)
InRefresh(c) == pc[c] \in {"primary", "fallback", "pause"}

(* the attempt of call c in flight or just failed: 0 is the primary page,  *)
(* 1..3 the fallback URLs in the order of the strategies array             *)
Attempt(c) == IF pc[c] = "primary" THEN 0 ELSE strategy[c]

(* C22: the attempts of one refresh are made in the fixed order primary,   *)
(* Home page, Planifica tu viaje, Cuando llega simple; a success ends the  *)
(* refresh without a further acquisition request; and after a failed       *)
(* attempt that is not the last one the next attempt is made (at once or   *)
(* after the pause), however the attempt failed.                           *)
C22_StrategiesInOrder ==
    [][\A c \in Calls :
         /\ (InRefresh(c) /\ <<pc'[c], strategy'[c]>> # <<pc[c], strategy[c]>>) =>
               \/ Acquires(c) /\ acquired'[c] = acquired[c]
               \/ pc[c] = "fallback" /\ pc'[c] = "pause" /\ strategy'[c] = strategy[c]
               \/ /\ Attempt(c) < NumStrategies
                  /\ pc'[c] = "fallback"
                  /\ strategy'[c] = Attempt(c) + 1
                  /\ acquired'[c] = acquired[c] + 1
               \/ Attempt(c) = NumStrategies /\ pc'[c] = "done"
         /\ pc[c] = "arrivals" => acquired'[c] <= acquired[c]]_vars

(* C23: at any time at most one call has a token acquisition in progress   *)
(* (a request of the primary page or of a fallback URL in flight, or the   *)
(* pause between two of them).                                             *)
C23_SingleFlight ==
    Cardinality({c \in Calls : InRefresh(c)}) <= 1

(* C24: within one getStopStatistics call of N samples at most one poll is *)
(* in flight at any time; a poll other than the first starts only when the *)
(* previous one has completed and at least the interval has elapsed since; *)
(* every delay follows a poll that is not the last; and when the call ends *)
(* N polls have been made and N - 1 delays have occurred.                  *)
C24_PollsAreSequential ==
    /\ [](/\ statsRun.inFlight <= 1
          /\ statsRun.polls <= statsRun.samples
          /\ statsRun.polls > 0 => statsRun.delays \in {statsRun.polls - 1, statsRun.polls}
          /\ statsRun.delays < statsRun.samples \/ statsRun.samples = 0
          /\ statsRun.pc = "done" =>
                /\ statsRun.polls = statsRun.samples
                /\ statsRun.delays = statsRun.samples - 1
                /\ statsRun.inFlight = 0)
    /\ [][(statsRun'.polls > statsRun.polls /\ statsRun.polls > 0) =>
            /\ statsRun'.polls = statsRun.polls + 1
            /\ statsRun.inFlight = 0
            /\ statsRun.delays = statsRun.polls
            /\ now' >= statsRun.completedAt + statsRun.intervalMs]_vars

(* a call of three samples has ended, a failed sample among them           *)
C24_Witness ==
    /\ statsRun.pc = "done"
    /\ statsRun.samples >= 3
    /\ statsRun.delays = statsRun.samples - 1
    /\ Len(statsRun.acc.historico) < statsRun.samples
    /\ Len(statsRun.acc.historico) > 0

(* the service codes of the polled records, in the order of observation    *)
RECURSIVE Observed(_)
Observed(upstreams) ==
    IF upstreams = << >> THEN << >>
    ELSE LET records == IF Succeeds(Head(upstreams))
                          THEN ProcessResponse(Head(upstreams).body).value
                          ELSE << >>
         IN  [i \in DOMAIN records |-> ServicioOf(records[i])] \o Observed(Tail(upstreams))

(* the position of the first observation of a code                         *)
FirstObserved(seen, code) ==
    CHOOSE i \in DOMAIN seen : seen[i] = code /\ \A j \in 1..(i - 1) : seen[j] # code

(* C25: serviciosMasComunes is in descending order of frequency, and codes *)
(* of equal frequency are in the order of their first observation across   *)
(* the samples, for numeric codes (405, 108) and alphanumeric ones (B19).  *)
C25_SortedByFrequencyThenFirstSeen ==
    Served({"stops/statistics"}) =>
        LET common == httpCall.service.data.estadisticas.serviciosMasComunes
            seen == Observed(httpCall.upstreams)
        IN  \A i, j \in DOMAIN common :
                i < j =>
                    \/ common[i].frecuencia > common[j].frecuencia
                    \/ /\ common[i].frecuencia = common[j].frecuencia
                       /\ FirstObserved(seen, common[i].servicio)
                            < FirstObserved(seen, common[j].servicio)

(* C26: a fallback attempt other than the first starts only at the end of  *)
(* a pause that began when the previous attempt failed and lasted at least *)
(* 1 s, however that attempt failed.                                       *)
C26_BackoffBetweenFallbacks ==
    [][\A c \in Calls :
         (pc'[c] = "fallback" /\ strategy'[c] > 1 /\ strategy'[c] # strategy[c]) =>
            /\ pc[c] = "pause"
            /\ wake[c] >= PauseMs
            /\ now' >= wake[c]]_vars

FormattedRouteSucceeds ==
    /\ Served({"routes/formatted"})
    /\ httpCall.service.kind = "returned"
    /\ httpCall.service.success

(* the leg of the first answer that the returned route was made from       *)
RouteIsIda == IsTruthy(Get(httpCall.upstreams[1].body, "ida"))

(* C28: in a successful getFormattedRoute result metadata reports present  *)
(* the leg the route was made from (tieneIda when it is the ida leg,       *)
(* tieneRegreso when it is the regreso leg), whatever upstream answers to  *)
(* the second route request; and when the second request fails after the   *)
(* route was obtained the request is answered with a failure response.     *)
C28_RouteMatchesMetadata ==
    /\ FormattedRouteSucceeds =>
          LET metadata == httpCall.service.data.metadata
          IN  /\ RouteIsIda => metadata.tieneIda
              /\ ~RouteIsIda => metadata.tieneRegreso
    /\ (/\ Served({"routes/formatted"})
        /\ Len(httpCall.requests) = 2
        /\ httpCall.upstreams[2].kind = "error") =>
          /\ httpCall.response.status = 500
          /\ ~httpCall.response.body.success

(* C29: in every state of runLoadTest the number of requests in flight is  *)
(* between 0 and concurrency and the number of launched requests is at     *)
(* most total, whatever the order in which the requests complete.          *)
C29_InFlightWithinConcurrency ==
    /\ loadTest.inFlight >= 0
    /\ loadTest.inFlight <= loadTest.concurrency
    /\ loadTest.launched <= loadTest.total

(* as many requests as concurrency allows are in flight, others are left   *)
(* to launch and some have completed                                       *)
C29_Witness ==
    /\ loadTest.pc = "delay"
    /\ loadTest.concurrency >= 2
    /\ loadTest.inFlight = loadTest.concurrency
    /\ loadTest.launched < loadTest.total
    /\ loadTest.launched > loadTest.inFlight

(* the results counted so far                                              *)
Classified ==
    loadTest.ok2xx + loadTest.rate429 + loadTest.client4xx
      + loadTest.server5xx + loadTest.other

(* C30: a started runLoadTest eventually prints its summary, and then      *)
(* exactly total requests have been launched, none is in flight, every     *)
(* request has been counted in exactly one class and at most 10 samples    *)
(* have been recorded.                                                     *)
C30_LoadTestTerminates ==
    /\ [](loadTest.pc = "done" =>
            /\ loadTest.launched = loadTest.total
            /\ loadTest.inFlight = 0
            /\ Classified = loadTest.total
            /\ loadTest.samples <= MaxSampleCount)
    /\ [](Classified = loadTest.launched - loadTest.inFlight)
    /\ (loadTest.pc # "idle") ~> (loadTest.pc = "done")

(* the summary of a test of more than 10 requests, with results in more    *)
(* than one class                                                          *)
C30_Witness ==
    /\ loadTest.pc = "done"
    /\ loadTest.total > MaxSampleCount
    /\ loadTest.samples = MaxSampleCount
    /\ loadTest.rate429 > 0
    /\ loadTest.other > 0
    /\ loadTest.ok2xx > 0

====
